---- MODULE Spec2Model ----
(***************************************************************************)
(* Model of the Snappr MCP server: the tool dispatcher (call_tool), the    *)
(* lazily constructed client singleton (get_client, SnapprClient), the     *)
(* HTTP adapter (SnapprClient.get / SnapprClient.post) and the nine tool   *)
(* handlers, in both source variants (src/app.py and src/snappr_mcp.py).   *)
(*                                                                         *)
(* Texts are sequences of string segments: every literal part of an        *)
(* f-string and every interpolated value is one or more segments, so       *)
(* "text = prefix + message" is sequence concatenation and "text contains  *)
(* message" is a contiguous sub-sequence.  Non-ASCII glyphs of the source  *)
(* literals are written as bracketed ASCII names, e.g. "[ok] Available",   *)
(* the bullet as "*" and the backtick as "'".                              *)
(*                                                                         *)
(* Python values (JSON values, argument values, None) are tagged records.  *)
(***************************************************************************)
EXTENDS Integers, Sequences, FiniteSets, TLC

VARIABLES
    variant,        \* which source file runs: "app" (src/app.py) or "mcp" (src/snappr_mcp.py)
    env,            \* the process environment (os.environ), the three SNAPPR_* variables
    snappr_client,  \* the module-level global 'snappr_client'
    task,           \* per invocation slot: the position of one call_tool coroutine
    listed          \* the catalog the last tools/list query returned, <<>> before any

vars == <<variant, env, snappr_client, task, listed>>

-----------------------------------------------------------------------------
(* Python values *)

PyNone == [t |-> "none"]
JStr(s) == [t |-> "str", s |-> s]
JNum(n) == [t |-> "num", n |-> n]
JBool(b) == [t |-> "bool", b |-> b]
JList(items) == [t |-> "list", items |-> items]
JDict(d) == [t |-> "dict", d |-> d]
EmptyDict == JDict(<<>>)

IsDict(v) == v.t = "dict"
IsList(v) == v.t = "list"
IsStr(v) == v.t = "str"

\* Python truthiness (bool(v)).
Truthy(v) ==
    CASE v.t = "none" -> FALSE
      [] v.t = "str" -> v.s # ""
      [] v.t = "num" -> v.n # 0
      [] v.t = "bool" -> v.b
      [] v.t = "list" -> Len(v.items) > 0
      [] v.t = "dict" -> DOMAIN v.d # {}

\* type(v).__name__
TypeName(v) ==
    CASE v.t = "none" -> "NoneType"
      [] v.t = "str" -> "str"
      [] v.t = "num" -> "int"
      [] v.t = "bool" -> "bool"
      [] v.t = "list" -> "list"
      [] v.t = "dict" -> "dict"

\* key in d, for a dict d
Has(v, k) == k \in DOMAIN v.d

\* d.get(k, default), for a dict d
DictGet(v, k, default) == IF k \in DOMAIN v.d THEN v.d[k] ELSE default

\* The order in which the keys of an upstream JSON object are listed
\* (insertion order in Python); one fixed order over the keys the model uses.
KeyOrder ==
    <<"results", "count", "total", "data", "shoot_types", "shoottypes", "types",
      "editing_job_types", "editing_types", "error", "coverage", "latitude",
      "longitude", "available_slots", "bookings", "booking_id", "status",
      "shoot_type", "location", "start_time", "duration", "photographer", "name",
      "display_name", "notes", "photo_count", "job_id", "estimated_completion",
      "media", "type", "filename", "url", "date", "time", "scheduled_date",
      "id", "title", "description", "price">>

RECURSIVE FlatSeq(_)
\* Concatenation of a sequence of segment sequences.
FlatSeq(ss) == IF ss = <<>> THEN <<>> ELSE Head(ss) \o FlatSeq(Tail(ss))

RECURSIVE JoinSeq(_, _)
\* sep.join(parts), on segment sequences
JoinSeq(parts, sep) ==
    IF parts = <<>> THEN <<>>
    ELSE IF Len(parts) = 1 THEN Head(parts)
    ELSE Head(parts) \o sep \o JoinSeq(Tail(parts), sep)

RECURSIVE PyRepr(_)
\* repr(v): strings quoted, containers rendered recursively.
PyRepr(v) ==
    CASE v.t = "none" -> <<"None">>
      [] v.t = "str" -> <<"'" \o v.s \o "'">>
      [] v.t = "num" -> <<ToString(v.n)>>
      [] v.t = "bool" -> <<IF v.b THEN "True" ELSE "False">>
      [] v.t = "list" ->
            <<"[">> \o JoinSeq([i \in 1..Len(v.items) |-> PyRepr(v.items[i])], <<", ">>)
                    \o <<"]">>
      [] v.t = "dict" ->
            LET ks == SelectSeq(KeyOrder, LAMBDA k: k \in DOMAIN v.d)
            IN  <<"{">> \o JoinSeq([i \in 1..Len(ks) |->
                                      <<"'" \o ks[i] \o "': ">> \o PyRepr(v.d[ks[i]])],
                                   <<", ">>)
                        \o <<"}">>

\* str(v), as an f-string interpolates a value.
PyStr(v) == IF v.t = "str" THEN <<v.s>> ELSE PyRepr(v)

-----------------------------------------------------------------------------
(* Exceptions and call results *)

Exc(cls, msg) == [cls |-> cls, msg |-> msg]
NoExc == [cls |-> "", msg |-> <<>>]

Ok(v) == [ok |-> TRUE, val |-> v, exc |-> NoExc]
Raise(e) == [ok |-> FALSE, val |-> PyNone, exc |-> e]

\* str(KeyError(k)) is repr(k)
KeyError(k) == Exc("KeyError", <<"'" \o k \o "'">>)

\* v.attr on a value that has no such attribute
AttributeError(v, attr) ==
    Exc("AttributeError",
        <<"'" \o TypeName(v) \o "' object has no attribute '" \o attr \o "'">>)

TypeError(what) == Exc("TypeError", <<what>>)

-----------------------------------------------------------------------------
(* Process environment *)

Unset == [set |-> FALSE, val |-> ""]
SetTo(s) == [set |-> TRUE, val |-> s]

\* The credential used by the modelled runs (longer than the 10- and 20-character
\* prefixes the diagnostics print).
TheKey == "sk_live_0123456789abcdefXYZ"
OverrideUrl == "https://proxy.example.test/v2/"

KeyValues == {Unset, SetTo(""), SetTo(TheKey)}
SandboxValues == {Unset, SetTo("true"), SetTo("True"), SetTo("false")}
BaseUrlValues == {Unset, SetTo(OverrideUrl)}

Environments ==
    [SNAPPR_API_KEY : KeyValues, SNAPPR_USE_SANDBOX : SandboxValues,
     SNAPPR_BASE_URL : BaseUrlValues]

\* os.getenv(name): None when the variable is not set
Getenv(e, name) == IF e[name].set THEN JStr(e[name].val) ELSE PyNone

\* os.getenv(name, default)
GetenvDefault(e, name, default) == IF e[name].set THEN e[name].val ELSE default

\* str.lower() on the selector values the model draws
Lower(s) ==
    CASE s = "True" -> "true"
      [] s = "TRUE" -> "true"
      [] s = "False" -> "false"
      [] OTHER -> s

-----------------------------------------------------------------------------
(* SnapprClient and the lazy singleton *)

SNAPPR_BASE_URL == "https://api.snappr.com/"
SNAPPR_SANDBOX_URL == "https://sandbox.snappr.com/"
DevBaseUrl == "https://dev-api.snappr.com/"

Headers(api_key) ==
    ("Authorization" :> "Bearer " \o api_key)
    @@ ("Content-Type" :> "application/json")
    @@ ("User-Agent" :> "Snappr-MCP-Server/1.0")
    @@ ("accept-version" :> "1.0.0")

\* SnapprClient.__init__ of src/app.py: the host follows use_sandbox.
SnapprClientApp(api_key, use_sandbox, e) ==
    [t |-> "client", api_key |-> api_key,
     base_url |-> IF use_sandbox THEN SNAPPR_SANDBOX_URL ELSE SNAPPR_BASE_URL,
     headers |-> Headers(api_key)]

\* SnapprClient.__init__ of src/snappr_mcp.py: the host is the SNAPPR_BASE_URL
\* variable, defaulting to the dev host; use_sandbox is accepted and not used.
SnapprClientMcp(api_key, use_sandbox, e) ==
    [t |-> "client", api_key |-> api_key,
     base_url |-> GetenvDefault(e, "SNAPPR_BASE_URL", DevBaseUrl),
     headers |-> Headers(api_key)]

SnapprClient(v, api_key, use_sandbox, e) ==
    IF v = "app" THEN SnapprClientApp(api_key, use_sandbox, e)
    ELSE SnapprClientMcp(api_key, use_sandbox, e)

ConfigErrorMsg == <<"SNAPPR_API_KEY", " environment variable is required">>

\* os.getenv("SNAPPR_USE_SANDBOX", "false").lower() == "true"
UseSandbox(e) == Lower(GetenvDefault(e, "SNAPPR_USE_SANDBOX", "false")) = "true"

\* get_client with the credential test "if api_key is None": an empty credential
\* constructs a client.
get_client_NoneOnly(v, glob, e) ==
    IF glob = PyNone
    THEN LET api_key == Getenv(e, "SNAPPR_API_KEY")
         IN  IF api_key = PyNone
             THEN [ok |-> FALSE, val |-> PyNone, glob |-> glob,
                   exc |-> Exc("ValueError", ConfigErrorMsg)]
             ELSE LET c == SnapprClient(v, api_key.s, UseSandbox(e), e)
                  IN  [ok |-> TRUE, val |-> c, glob |-> c, exc |-> NoExc]
    ELSE [ok |-> TRUE, val |-> glob, glob |-> glob, exc |-> NoExc]

\* get_client without the "if snappr_client is None" test: every call reads the
\* environment and constructs a client.
get_client_Rebuild(v, glob, e) ==
    LET api_key == Getenv(e, "SNAPPR_API_KEY")
    IN  IF ~Truthy(api_key)
        THEN [ok |-> FALSE, val |-> PyNone, glob |-> glob,
              exc |-> Exc("ValueError", ConfigErrorMsg)]
        ELSE LET c == SnapprClient(v, api_key.s, UseSandbox(e), e)
             IN  [ok |-> TRUE, val |-> c, glob |-> c, exc |-> NoExc]

\* get_client that assigns the global before it tests the credential: a failed
\* construction leaves a client without a credential behind.
get_client_Poisoned(v, glob, e) ==
    IF glob = PyNone
    THEN LET api_key == Getenv(e, "SNAPPR_API_KEY")
         IN  IF ~Truthy(api_key)
             THEN [ok |-> FALSE, val |-> PyNone,
                   glob |-> SnapprClient(v, "", UseSandbox(e), e),
                   exc |-> Exc("ValueError", ConfigErrorMsg)]
             ELSE LET c == SnapprClient(v, api_key.s, UseSandbox(e), e)
                  IN  [ok |-> TRUE, val |-> c, glob |-> c, exc |-> NoExc]
    ELSE [ok |-> TRUE, val |-> glob, glob |-> glob, exc |-> NoExc]

\* get_client that tests the credential on every call and unsets the global
\* when the credential is gone.
get_client_Forget(v, glob, e) ==
    LET api_key == Getenv(e, "SNAPPR_API_KEY")
    IN  IF ~Truthy(api_key)
        THEN [ok |-> FALSE, val |-> PyNone, glob |-> PyNone,
              exc |-> Exc("ValueError", ConfigErrorMsg)]
        ELSE IF glob # PyNone
        THEN [ok |-> TRUE, val |-> glob, glob |-> glob, exc |-> NoExc]
        ELSE LET c == SnapprClient(v, api_key.s, UseSandbox(e), e)
             IN  [ok |-> TRUE, val |-> c, glob |-> c, exc |-> NoExc]

\* get_client(): val is the client to use, glob the new value of the global.
get_client(v, glob, e) ==
    IF glob = PyNone
    THEN LET api_key == Getenv(e, "SNAPPR_API_KEY")
         IN  IF ~Truthy(api_key)
             THEN [ok |-> FALSE, val |-> PyNone, glob |-> glob,
                   exc |-> Exc("ValueError", ConfigErrorMsg)]
             ELSE LET c == SnapprClient(v, api_key.s, UseSandbox(e), e)
                  IN  [ok |-> TRUE, val |-> c, glob |-> c, exc |-> NoExc]
    ELSE [ok |-> TRUE, val |-> glob, glob |-> glob, exc |-> NoExc]

-----------------------------------------------------------------------------
(* Upstream outcomes and the HTTP adapter *)

\* What one HTTP request can end in.  kind: "connect_error" (httpx.ConnectError),
\* "timeout" (httpx.TimeoutException), "other" (any other transport fault, class
\* cls), "response" (an HTTP response: status code, body text, and the parsed
\* body when the text is JSON).
ConnectFailure(detail) ==
    [kind |-> "connect_error", cls |-> "ConnectError", code |-> 0, text |-> detail,
     parsable |-> FALSE, body |-> PyNone]
TimeoutFailure(detail) ==
    [kind |-> "timeout", cls |-> "ReadTimeout", code |-> 0, text |-> detail,
     parsable |-> FALSE, body |-> PyNone]
OtherFailure(cls, detail) ==
    [kind |-> "other", cls |-> cls, code |-> 0, text |-> detail,
     parsable |-> FALSE, body |-> PyNone]
Response(code, text, body) ==
    [kind |-> "response", cls |-> "", code |-> code, text |-> text,
     parsable |-> TRUE, body |-> body]
BadJsonResponse(code, text) ==
    [kind |-> "response", cls |-> "", code |-> code, text |-> text,
     parsable |-> FALSE, body |-> PyNone]

\* response.raise_for_status() raises httpx.HTTPStatusError
IsErrorStatus(code) == code >= 400 /\ code <= 599

AuthErrorMsg ==
    <<"Invalid Snappr API key. Please check your ", "SNAPPR_API_KEY",
      " environment variable.">>
NotFoundMsg(endpoint) == <<"Snappr API endpoint not found: ", endpoint>>
UpstreamErrorMsg(code, text) == <<"Snappr API error (", ToString(code), "): ", text>>
JSONDecodeErrorMsg == <<"Expecting value: line 1 column 1 (char 0)">>

\* StatusError without the 401 branch.
StatusError_No401(endpoint, o) ==
    IF o.code = 404 THEN Exc("ValueError", NotFoundMsg(endpoint))
    ELSE Exc("ValueError", UpstreamErrorMsg(o.code, o.text))

\* The except httpx.HTTPStatusError branch, the same in get and post.
StatusError(endpoint, o) ==
    IF o.code = 401 THEN Exc("ValueError", AuthErrorMsg)
    ELSE IF o.code = 404 THEN Exc("ValueError", NotFoundMsg(endpoint))
    ELSE Exc("ValueError", UpstreamErrorMsg(o.code, o.text))

\* The body of the try block without raise_for_status: the body is parsed
\* whatever the status.
ReadResponse_NoStatusCheck(endpoint, o) ==
    IF ~o.parsable THEN Raise(Exc("JSONDecodeError", JSONDecodeErrorMsg))
    ELSE Ok(o.body)

\* The body of the try block once the transport answered: raise_for_status, then
\* response.json().
ReadResponse(endpoint, o) ==
    IF IsErrorStatus(o.code) THEN Raise(StatusError(endpoint, o))
    ELSE IF ~o.parsable THEN Raise(Exc("JSONDecodeError", JSONDecodeErrorMsg))
    ELSE Ok(o.body)

\* SnapprClient.get: the outcome o of its single request, mapped.
ClientGet(endpoint, o) ==
    CASE o.kind = "connect_error" ->
            Raise(Exc("ConnectionError",
                      <<"SNAPPR_HTTP_ERROR: Failed to connect to Snappr API: ", o.text>>))
      [] o.kind = "timeout" ->
            Raise(Exc("TimeoutError",
                      <<"SNAPPR_HTTP_ERROR: Snappr API request timed out: ", o.text>>))
      [] o.kind = "other" -> Raise(Exc(o.cls, <<o.text>>))
      [] o.kind = "response" -> ReadResponse(endpoint, o)

\* SnapprClient.post without the except httpx.TimeoutException clause: the
\* transport's timeout fault leaves post as it is.
ClientPost_NoTimeoutClause(endpoint, o) ==
    CASE o.kind = "connect_error" ->
            Raise(Exc("ConnectionError", <<"Failed to connect to Snappr API: ", o.text>>))
      [] o.kind = "timeout" -> Raise(Exc(o.cls, <<o.text>>))
      [] o.kind = "other" -> Raise(Exc(o.cls, <<o.text>>))
      [] o.kind = "response" -> ReadResponse(endpoint, o)

\* SnapprClient.post
ClientPost(endpoint, o) ==
    CASE o.kind = "connect_error" ->
            Raise(Exc("ConnectionError", <<"Failed to connect to Snappr API: ", o.text>>))
      [] o.kind = "timeout" ->
            Raise(Exc("TimeoutError", <<"Snappr API request timed out: ", o.text>>))
      [] o.kind = "other" -> Raise(Exc(o.cls, <<o.text>>))
      [] o.kind = "response" -> ReadResponse(endpoint, o)

ClientCall(method, endpoint, o) ==
    IF method = "GET" THEN ClientGet(endpoint, o) ELSE ClientPost(endpoint, o)

-----------------------------------------------------------------------------
(* Python helpers the handlers use *)

RECURSIVE Concat(_)
\* "".join(segments): the text as one string
Concat(segs) == IF segs = <<>> THEN "" ELSE Head(segs) \o Concat(Tail(segs))

\* f"{v}" as one string (used inside endpoints)
StrOf(v) == Concat(PyStr(v))

\* s[:n] on a string
Prefix(s, n) == IF Len(s) <= n THEN s ELSE SubSeq(s, 1, n)

\* a or b
PyOr(a, b) == IF Truthy(a) THEN a ELSE b

\* len(v) is defined (else TypeError)
Sized(v) == v.t \in {"list", "str", "dict"}
PyLen(v) ==
    CASE v.t = "list" -> Len(v.items)
      [] v.t = "str" -> Len(v.s)
      [] v.t = "dict" -> Cardinality(DOMAIN v.d)
LenError(v) == TypeError("object of type '" \o TypeName(v) \o "' has no len()")

\* for x in v: the elements visited (a list's items, a string's characters, a
\* dict's keys); other values are not iterable (TypeError).
Iterable(v) == v.t \in {"list", "str", "dict"}
Iter(v) ==
    CASE v.t = "list" -> v.items
      [] v.t = "str" -> [i \in 1..Len(v.s) |-> JStr(SubSeq(v.s, i, i))]
      [] v.t = "dict" ->
            LET ks == SelectSeq(KeyOrder, LAMBDA k: k \in DOMAIN v.d)
            IN  [i \in 1..Len(ks) |-> JStr(ks[i])]
IterError(v) == TypeError("'" \o TypeName(v) \o "' object is not iterable")

\* v[:n] is defined for lists and strings
Sliceable(v) == v.t \in {"list", "str"}

\* v[:n] taken as the whole of v.
Slice_All(v, n) == Iter(v)

\* v[:n]
Slice(v, n) ==
    LET xs == Iter(v) IN IF Len(xs) <= n THEN xs ELSE SubSeq(xs, 1, n)
SliceError(v) ==
    IF v.t = "dict" THEN TypeError("unhashable type: 'slice'")
    ELSE TypeError("'" \o TypeName(v) \o "' object is not subscriptable")

\* str.title() on the status words the model draws
Title(s) ==
    CASE s = "pending" -> "Pending"
      [] s = "confirmed" -> "Confirmed"
      [] s = "completed" -> "Completed"
      [] s = "unknown" -> "Unknown"
      [] s = "in progress" -> "In Progress"
      [] OTHER -> s

\* The first of 'keys' (in the order the code subscripts them) that args lacks.
MissingKeys(args, keys) == SelectSeq(keys, LAMBDA k: k \notin DOMAIN args)

\* Entries for the optional arguments that are present: {k: args[k]}
Present(args, k) == IF k \in DOMAIN args THEN k :> args[k] ELSE <<>>

-----------------------------------------------------------------------------
(* Handlers, first half: from entry to the single awaited adapter call.      *)
(* val is the request handed to the adapter; a fault raised while building   *)
(* it (a missing required argument) is exc.                                  *)

Req(method, endpoint, payload) ==
    [method |-> method, endpoint |-> endpoint, payload |-> payload]

handle_list_shoot_types_begin(args) == Ok(Req("GET", "shoottypes", PyNone))

handle_list_editing_job_types_begin(args) == Ok(Req("GET", "editing-job-types", PyNone))

\* handle_check_coverage reading its arguments with args.get(k): a missing one
\* becomes None and the request is sent.
handle_check_coverage_begin_Get(args) ==
    LET params == ("address" :> IF "address" \in DOMAIN args THEN args["address"]
                                ELSE PyNone)
                  @@ ("shoottype" :> IF "shoot_type" \in DOMAIN args
                                     THEN args["shoot_type"] ELSE PyNone)
    IN  Ok(Req("GET", "coverage", JDict(params)))

\* handle_check_coverage adding each coordinate that is present on its own.
handle_check_coverage_begin_Each(args) ==
    LET missing == MissingKeys(args, <<"address", "shoot_type">>)
    IN  IF missing # <<>> THEN Raise(KeyError(Head(missing)))
        ELSE Ok(Req("GET", "coverage",
                    JDict(("address" :> args["address"])
                          @@ ("shoottype" :> args["shoot_type"])
                          @@ Present(args, "latitude") @@ Present(args, "longitude"))))

handle_check_coverage_begin(args) ==
    LET missing == MissingKeys(args, <<"address", "shoot_type">>)
    IN  IF missing # <<>> THEN Raise(KeyError(Head(missing)))
        ELSE LET both == "latitude" \in DOMAIN args /\ "longitude" \in DOMAIN args
                 params == ("address" :> args["address"])
                           @@ ("shoottype" :> args["shoot_type"])
                           @@ (IF both
                               THEN ("latitude" :> args["latitude"])
                                    @@ ("longitude" :> args["longitude"])
                               ELSE <<>>)
             IN  Ok(Req("GET", "coverage", JDict(params)))

handle_find_availability_begin(args) ==
    LET missing == MissingKeys(args, <<"location", "shoot_type", "date_from", "date_to">>)
    IN  IF missing # <<>> THEN Raise(KeyError(Head(missing)))
        ELSE LET params == ("location" :> args["location"])
                           @@ ("shoot_type" :> args["shoot_type"])
                           @@ ("date_from" :> args["date_from"])
                           @@ ("date_to" :> args["date_to"])
                           @@ Present(args, "duration")
             IN  Ok(Req("GET", "availability", JDict(params)))

handle_create_booking_begin(args) ==
    LET missing == MissingKeys(args, <<"shoot_type", "location", "start_time", "duration",
                                       "contact_name", "contact_email">>)
    IN  IF missing # <<>> THEN Raise(KeyError(Head(missing)))
        ELSE LET contact == ("name" :> args["contact_name"])
                            @@ ("email" :> args["contact_email"])
                            @@ ("phone" :> IF "contact_phone" \in DOMAIN args
                                           THEN args["contact_phone"] ELSE JStr(""))
                 booking_data == ("shoot_type" :> args["shoot_type"])
                                 @@ ("location" :> args["location"])
                                 @@ ("start_time" :> args["start_time"])
                                 @@ ("duration" :> args["duration"])
                                 @@ ("contact" :> JDict(contact))
                                 @@ Present(args, "notes")
             IN  Ok(Req("POST", "bookings", JDict(booking_data)))

handle_list_bookings_begin(args) ==
    LET params == Present(args, "status") @@ Present(args, "limit")
                  @@ Present(args, "offset")
    IN  Ok(Req("GET", "bookings", JDict(params)))

handle_get_booking_begin(args) ==
    IF "booking_id" \notin DOMAIN args THEN Raise(KeyError("booking_id"))
    ELSE Ok(Req("GET", "bookings/" \o StrOf(args["booking_id"]), PyNone))

handle_create_editing_job_begin(args) ==
    IF "editing_type" \notin DOMAIN args THEN Raise(KeyError("editing_type"))
    ELSE LET editing_data == ("editing_type" :> args["editing_type"])
                             @@ Present(args, "booking_id")
                             @@ Present(args, "instructions")
                             @@ Present(args, "image_urls")
         IN  Ok(Req("POST", "editing-jobs", JDict(editing_data)))

\* handle_get_booking_media sending the type parameter whatever its value.
handle_get_booking_media_begin_AlwaysType(args) ==
    IF "booking_id" \notin DOMAIN args THEN Raise(KeyError("booking_id"))
    ELSE LET media_type == IF "media_type" \in DOMAIN args THEN args["media_type"]
                           ELSE JStr("all")
         IN  Ok(Req("GET", "bookings/" \o StrOf(args["booking_id"]) \o "/media",
                    JDict("type" :> media_type)))

handle_get_booking_media_begin(args) ==
    IF "booking_id" \notin DOMAIN args THEN Raise(KeyError("booking_id"))
    ELSE LET media_type == IF "media_type" \in DOMAIN args THEN args["media_type"]
                           ELSE JStr("all")
             params == IF media_type # JStr("all") THEN "type" :> media_type ELSE <<>>
         IN  Ok(Req("GET", "bookings/" \o StrOf(args["booking_id"]) \o "/media",
                    JDict(params)))

-----------------------------------------------------------------------------
(* Handlers, second half: from the adapter's answer r (a value or a raised    *)
(* fault) to the handler's own outcome, the message text or a raised fault.   *)

\* f"{type(v)}"
TypeRepr(v) == "<class '" \o TypeName(v) \o "'>"

\* list(d.keys()), for a dict d
KeysList(v) ==
    LET ks == SelectSeq(KeyOrder, LAMBDA k: k \in DOMAIN v.d)
    IN  JList([i \in 1..Len(ks) |-> JStr(ks[i])])

\* The lines of one loop, ls[i] being the segments its i-th element adds.
Lines(ls) == FlatSeq(ls)

\* NamedLine with display_name read as x.get("display_name", "Unknown").
NamedLine_NoDefault(x) ==
    IF IsDict(x)
    THEN LET name == DictGet(x, "name", JStr("Unknown"))
             display_name == DictGet(x, "display_name", JStr("Unknown"))
         IN  <<"* **">> \o PyStr(display_name) \o <<"** ('">> \o PyStr(name) \o <<"')\n">>
    ELSE <<"* ">> \o PyStr(x) \o <<"\n">>

\* The "display (name)" line both shoot-type loops and the mcp editing loop emit.
NamedLine(x) ==
    IF IsDict(x)
    THEN LET name == DictGet(x, "name", JStr("Unknown"))
             display_name == DictGet(x, "display_name", name)
         IN  <<"* **">> \o PyStr(display_name) \o <<"** ('">> \o PyStr(name) \o <<"')\n">>
    ELSE <<"* ">> \o PyStr(x) \o <<"\n">>

\* The line of the fallback loop of src/app.py handle_list_shoot_types.
FallbackNamedLine(x) ==
    IF IsDict(x)
    THEN LET name == DictGet(x, "name", DictGet(x, "id", JStr("Unknown")))
             display_name == DictGet(x, "display_name", DictGet(x, "title", name))
         IN  <<"* **">> \o PyStr(display_name) \o <<"** ('">> \o PyStr(name) \o <<"')\n">>
    ELSE <<"* ">> \o PyStr(x) \o <<"\n">>

\* src/app.py handle_list_shoot_types, the try block after the await.
ShootTypesBodyApp(r) ==
    IF ~r.ok THEN Raise(r.exc)
    ELSE
    LET result == r.val
        head == <<"[camera] Available Photography Shoot Types:\n\n", "Raw API Response: ">>
                \o PyStr(result) \o <<"\n\n">>
    IN  IF IsDict(result) /\ Has(result, "results")
        THEN LET shoot_types == DictGet(result, "results", JList(<<>>))
                 total == DictGet(result, "total", JNum(0))
                 count == DictGet(result, "count", JNum(0))
             IN  IF ~Sized(shoot_types) THEN Raise(LenError(shoot_types))
                 ELSE IF Truthy(shoot_types) /\ PyLen(shoot_types) > 0
                 THEN Ok(head \o <<"Found ">> \o PyStr(count) \o <<" of ">> \o PyStr(total)
                              \o <<" shoot types:\n\n">>
                              \o Lines([i \in 1..Len(Iter(shoot_types)) |-> NamedLine(Iter(shoot_types)[i])]))
                 ELSE Ok(head \o <<"No shoot types found in results array.">>)
        ELSE LET shoot_types ==
                     IF IsDict(result)
                     THEN PyOr(DictGet(result, "data", JList(<<>>)),
                          PyOr(DictGet(result, "shoot_types", JList(<<>>)),
                          PyOr(DictGet(result, "shoottypes", JList(<<>>)),
                               DictGet(result, "types", JList(<<>>)))))
                     ELSE IF IsList(result) THEN result ELSE PyNone
             IN  IF Truthy(shoot_types) /\ ~Sized(shoot_types)
                 THEN Raise(LenError(shoot_types))
                 ELSE IF Truthy(shoot_types) /\ PyLen(shoot_types) > 0
                 THEN Ok(head \o <<"Found ", ToString(PyLen(shoot_types)),
                                   " shoot types (fallback parsing):\n\n">>
                              \o Lines([i \in 1..Len(Iter(shoot_types)) |-> FallbackNamedLine(Iter(shoot_types)[i])]))
                 ELSE Ok(head \o <<"No shoot types found in response.", "\nDebugging info:\n",
                                   "- Response type: ", TypeRepr(result), "\n",
                                   "- Response keys (if dict): ">>
                              \o (IF IsDict(result) THEN PyStr(KeysList(result))
                                  ELSE <<"N/A">>)
                              \o <<"\n", "- Response length (if list): ">>
                              \o (IF IsList(result) THEN <<ToString(PyLen(result))>>
                                  ELSE <<"N/A">>)
                              \o <<"\n">>)

\* src/app.py handle_list_shoot_types: its own except returns the fault as text.
handle_list_shoot_types_app(args, r) ==
    LET b == ShootTypesBodyApp(r)
    IN  IF b.ok THEN b
        ELSE Ok(<<"SNAPPR_ERROR: Exception in handle_list_shoot_types: ">> \o b.exc.msg)

\* The else branch shared by the two listing handlers of src/snappr_mcp.py.
UnexpectedFormat(result) ==
    <<"[warn] Unexpected API response format.\n\n", "**Debug information:**\n",
      "- Response type: '", TypeRepr(result), "'\n">>
    \o (IF IsDict(result)
        THEN <<"- Available keys: '">> \o PyStr(KeysList(result)) \o <<"'\n">>
             \o (IF Has(result, "error")
                 THEN <<"- Error message: '">> \o PyStr(result.d["error"]) \o <<"'\n">>
                 ELSE <<>>)
        ELSE <<>>)
    \o <<"- Raw response: '", Prefix(StrOf(result), 200), "...'">>

\* The if/else both listing handlers of src/snappr_mcp.py run on the answer.
ListingBodyMcp(r, title, found, hint, none) ==
    IF ~r.ok THEN Raise(r.exc)
    ELSE
    LET result == r.val
    IN  IF IsDict(result) /\ Has(result, "results")
        THEN LET items == DictGet(result, "results", JList(<<>>))
                 total == DictGet(result, "total", JNum(0))
                 count == DictGet(result, "count", JNum(0))
             IN  IF Truthy(items) /\ ~Sized(items) THEN Raise(LenError(items))
                 ELSE IF Truthy(items) /\ PyLen(items) > 0
                 THEN Ok(<<title>> \o <<"*Found ">> \o PyStr(count) \o <<" of ">>
                         \o PyStr(total) \o <<found>>
                         \o Lines([i \in 1..Len(Iter(items)) |-> NamedLine(Iter(items)[i])]) \o <<hint>>)
                 ELSE Ok(<<title, none>>)
        ELSE Ok(<<title>> \o UnexpectedFormat(result))

PleaseCheck ==
    "\n\nPlease check:\n* API key is valid\n* Network connection\n* Snappr API service status"

\* src/snappr_mcp.py handle_list_shoot_types, the try block after the await
\* (its debug line takes len(shoot_types) before the test).
ShootTypesBodyMcp(r) ==
    IF r.ok /\ IsDict(r.val) /\ Has(r.val, "results")
            /\ ~Sized(DictGet(r.val, "results", PyNone))
    THEN Raise(LenError(DictGet(r.val, "results", PyNone)))
    ELSE ListingBodyMcp(r, "[camera] **Available Photography Shoot Types**\n\n",
             " available shoot types:*\n\n",
             "\n*Use the name in backticks (e.g., 'food', 'real-estate') when checking coverage or booking.*",
             "[warn] No shoot types found in results array.")

\* src/snappr_mcp.py handle_list_shoot_types: its own except returns the fault as text.
handle_list_shoot_types_mcp(args, r) ==
    LET b == ShootTypesBodyMcp(r)
    IN  IF b.ok THEN b
        ELSE Ok(<<"[x] **Error getting shoot types**\n\n">> \o b.exc.msg \o <<PleaseCheck>>)

\* src/snappr_mcp.py handle_list_editing_job_types, the try block
EditingTypesBodyMcp(r) ==
    ListingBodyMcp(r, "[art] **Available Photo Editing Job Types**\n\n",
        " available editing job types:*\n\n",
        "\n*Use the name in backticks (e.g., 'food', 'real-estate') when creating editing jobs.*",
        "[warn] No editing job types found in results array.")

\* src/snappr_mcp.py handle_list_editing_job_types: its own except returns the
\* fault as text.
handle_list_editing_job_types_mcp(args, r) ==
    LET b == EditingTypesBodyMcp(r)
    IN  IF b.ok THEN b
        ELSE Ok(<<"[x] **Error getting editing job types**\n\n">> \o b.exc.msg
                \o <<PleaseCheck>>)

\* The first element of xs a loop faults on, bad[i] telling whether it faults on
\* the i-th (it does on one).
FirstBad(xs, bad) == xs[CHOOSE i \in 1..Len(xs) :
                           bad[i] /\ \A j \in 1..(i - 1) : ~bad[j]]
AnyBad(bad) == \E i \in 1..Len(bad) : bad[i]

\* One element of the loop of src/app.py handle_list_editing_job_types.
EditingLineApp(x) ==
    IF IsStr(x) THEN <<"* ", x.s, "\n">>
    ELSE IF IsDict(x)
    THEN LET name == DictGet(x, "name",
                       DictGet(x, "display_name", DictGet(x, "type", JStr("Unknown"))))
             description == DictGet(x, "description", JStr(""))
             price == DictGet(x, "price", JStr(""))
         IN  <<"* **">> \o PyStr(name) \o <<"**">>
             \o (IF Truthy(price) THEN <<" - $">> \o PyStr(price) ELSE <<>>)
             \o (IF Truthy(description) THEN <<"\n  ">> \o PyStr(description) ELSE <<>>)
             \o <<"\n\n">>
    ELSE <<>>

\* src/app.py handle_list_editing_job_types (no try block of its own)
handle_list_editing_job_types_app(args, r) ==
    IF ~r.ok THEN Raise(r.exc)
    ELSE
    LET result == r.val
        head == <<"[art] Available Photo Editing Job Types:\n\n", "Raw API Response: ">>
                \o PyStr(result) \o <<"\n\n">>
    IN  IF ~IsDict(result) THEN Raise(AttributeError(result, "get"))
        ELSE LET editing_types ==
                     PyOr(DictGet(result, "editing_job_types", JList(<<>>)),
                     PyOr(DictGet(result, "data", JList(<<>>)),
                     PyOr(DictGet(result, "types", JList(<<>>)),
                     PyOr(DictGet(result, "editing_types", JList(<<>>)),
                          IF IsList(result) THEN result ELSE JList(<<>>)))))
             IN  IF Truthy(editing_types)
                 THEN IF ~Iterable(editing_types) THEN Raise(IterError(editing_types))
                      ELSE Ok(head \o <<"Found editing job types:\n\n">>
                                   \o Lines([i \in 1..Len(Iter(editing_types)) |-> EditingLineApp(Iter(editing_types)[i])]))
                 ELSE Ok(head \o <<"No editing job types found in response.">>)

\* handle_check_coverage with result.get("coverage", True).
handle_check_coverage_end_DefaultTrue(args, r) ==
    IF ~r.ok THEN Raise(r.exc)
    ELSE
    LET result == r.val
    IN  IF ~IsDict(result) THEN Raise(AttributeError(result, "get"))
        ELSE
        LET coverage_available == DictGet(result, "coverage", JBool(TRUE))
            coverage_status == IF Truthy(coverage_available) THEN "[ok] Available"
                               ELSE "[x] Not Available"
        IN  Ok(<<"[pin] Snappr Photography Coverage Check:\n\n", "**Location:** ">>
               \o PyStr(args["address"]) \o <<"\n", "**Shoot Type:** ">>
               \o PyStr(args["shoot_type"]) \o <<"\n", "**Status:** ", coverage_status, "\n\n">>
               \o (IF Has(result, "latitude") /\ Has(result, "longitude")
                   THEN <<"**Coordinates:** ">> \o PyStr(result.d["latitude"]) \o <<", ">>
                        \o PyStr(result.d["longitude"]) \o <<"\n">>
                   ELSE <<>>)
               \o (IF ~Truthy(coverage_available)
                   THEN <<"[info] Unfortunately, Snappr photography services are not available in this location for this shoot type.\n",
                          "You may want to try a nearby location or contact Snappr directly for alternatives.">>
                   ELSE <<"[party] Great! Snappr photography services are available in this location for this shoot type.\n",
                          "You can proceed with booking a photographer.">>))

\* handle_check_coverage, after the await
handle_check_coverage_end(args, r) ==
    IF ~r.ok THEN Raise(r.exc)
    ELSE
    LET result == r.val
    IN  IF ~IsDict(result) THEN Raise(AttributeError(result, "get"))
        ELSE
        LET coverage_available == DictGet(result, "coverage", JBool(FALSE))
            coverage_status == IF Truthy(coverage_available) THEN "[ok] Available"
                               ELSE "[x] Not Available"
        IN  Ok(<<"[pin] Snappr Photography Coverage Check:\n\n", "**Location:** ">>
               \o PyStr(args["address"]) \o <<"\n", "**Shoot Type:** ">>
               \o PyStr(args["shoot_type"]) \o <<"\n", "**Status:** ", coverage_status, "\n\n">>
               \o (IF Has(result, "latitude") /\ Has(result, "longitude")
                   THEN <<"**Coordinates:** ">> \o PyStr(result.d["latitude"]) \o <<", ">>
                        \o PyStr(result.d["longitude"]) \o <<"\n">>
                   ELSE <<>>)
               \o (IF ~Truthy(coverage_available)
                   THEN <<"[info] Unfortunately, Snappr photography services are not available in this location for this shoot type.\n",
                          "You may want to try a nearby location or contact Snappr directly for alternatives.">>
                   ELSE <<"[party] Great! Snappr photography services are available in this location for this shoot type.\n",
                          "You can proceed with booking a photographer.">>))

SlotLine(slot) ==
    <<"[date] ">> \o PyStr(DictGet(slot, "date", PyNone)) \o <<" at ">>
    \o PyStr(DictGet(slot, "time", PyNone)) \o <<"\n">>

NotDict(x) == ~IsDict(x)

\* handle_find_availability, after the await
handle_find_availability_end(args, r) ==
    IF ~r.ok THEN Raise(r.exc)
    ELSE
    LET result == r.val
        head == <<"Available Time Slots for ">> \o PyStr(args["shoot_type"]) \o <<" in ">>
                \o PyStr(args["location"]) \o <<":\n\n">>
    IN  IF ~IsDict(result) THEN Raise(AttributeError(result, "get"))
        ELSE
        LET slots == DictGet(result, "available_slots", JList(<<>>))
        IN  IF ~Truthy(slots)
            THEN Ok(head \o <<"No available slots found for the specified criteria.">>)
            ELSE IF ~Sliceable(slots) THEN Raise(SliceError(slots))
            ELSE LET shown == Slice(slots, 10)
                 IN  IF AnyBad([i \in 1..Len(shown) |-> NotDict(shown[i])])
                     THEN Raise(AttributeError(FirstBad(shown, [i \in 1..Len(shown) |-> NotDict(shown[i])]), "get"))
                     ELSE Ok(head \o Lines([i \in 1..Len(shown) |-> SlotLine(shown[i])]))

\* handle_create_booking, after the await
handle_create_booking_end(args, r) ==
    IF ~r.ok THEN Raise(r.exc)
    ELSE
    LET result == r.val
    IN  IF ~IsDict(result) THEN Raise(AttributeError(result, "get"))
        ELSE
        LET booking_id == DictGet(result, "booking_id", PyNone)
            status == DictGet(result, "status", JStr("pending"))
        IN  IF ~IsStr(status) THEN Raise(AttributeError(status, "title"))
            ELSE Ok(<<"[ok] Booking Created Successfully!\n\n", "Booking ID: ">>
                    \o PyStr(booking_id) \o <<"\n", "Status: ", Title(status.s), "\n",
                       "Shoot Type: ">> \o PyStr(args["shoot_type"]) \o <<"\n", "Location: ">>
                    \o PyStr(args["location"]) \o <<"\n", "Scheduled: ">>
                    \o PyStr(args["start_time"]) \o <<"\n", "Duration: ">>
                    \o PyStr(args["duration"]) \o <<" minutes\n">>)

\* A booking the list_bookings loop faults on: booking.get on a non-dict, or
\* .title() on a status that is no string.
BadBooking(b) == ~IsDict(b) \/ ~IsStr(DictGet(b, "status", JStr("unknown")))
BookingFault(b) ==
    IF ~IsDict(b) THEN AttributeError(b, "get")
    ELSE AttributeError(DictGet(b, "status", JStr("unknown")), "title")

BookingLines(b) ==
    <<"[cam] ">> \o PyStr(DictGet(b, "booking_id", PyNone)) \o <<" - ">>
    \o PyStr(DictGet(b, "shoot_type", PyNone)) \o <<"\n", "   Status: ",
       Title(DictGet(b, "status", JStr("unknown")).s), "\n", "   Location: ">>
    \o PyStr(DictGet(b, "location", JStr("N/A"))) \o <<"\n", "   Date: ">>
    \o PyStr(DictGet(b, "scheduled_date", JStr("N/A"))) \o <<"\n\n">>

\* handle_list_bookings, after the await
handle_list_bookings_end(args, r) ==
    IF ~r.ok THEN Raise(r.exc)
    ELSE
    LET result == r.val
    IN  IF ~IsDict(result) THEN Raise(AttributeError(result, "get"))
        ELSE
        LET bookings == DictGet(result, "bookings", JList(<<>>))
        IN  IF ~Sized(bookings) THEN Raise(LenError(bookings))
            ELSE
            LET total == DictGet(result, "total", JNum(PyLen(bookings)))
                head == <<"Photography Bookings (Total: ">> \o PyStr(total) \o <<"):\n\n">>
            IN  IF ~Truthy(bookings) THEN Ok(head \o <<"No bookings found.">>)
                ELSE IF AnyBad([i \in 1..Len(Iter(bookings)) |-> BadBooking(Iter(bookings)[i])])
                THEN Raise(BookingFault(FirstBad(Iter(bookings), [i \in 1..Len(Iter(bookings)) |-> BadBooking(Iter(bookings)[i])])))
                ELSE Ok(head \o Lines([i \in 1..Len(Iter(bookings)) |-> BookingLines(Iter(bookings)[i])]))

\* handle_get_booking, after the await
handle_get_booking_end(args, r) ==
    IF ~r.ok THEN Raise(r.exc)
    ELSE
    LET result == r.val
        booking_id == args["booking_id"]
    IN  IF ~IsDict(result) THEN Raise(AttributeError(result, "get"))
        ELSE
        LET status == DictGet(result, "status", JStr("unknown"))
            photographer == DictGet(result, "photographer", EmptyDict)
        IN  IF ~IsStr(status) THEN Raise(AttributeError(status, "title"))
            ELSE IF ~IsDict(photographer) THEN Raise(AttributeError(photographer, "get"))
            ELSE Ok(<<"Booking Details - ">> \o PyStr(booking_id) \o <<":\n\n", "Shoot Type: ">>
                    \o PyStr(DictGet(result, "shoot_type", JStr("N/A")))
                    \o <<"\n", "Status: ", Title(status.s), "\n", "Location: ">>
                    \o PyStr(DictGet(result, "location", JStr("N/A"))) \o <<"\n", "Scheduled: ">>
                    \o PyStr(DictGet(result, "start_time", JStr("N/A"))) \o <<"\n", "Duration: ">>
                    \o PyStr(DictGet(result, "duration", JStr("N/A")))
                    \o <<" minutes\n", "Photographer: ">>
                    \o PyStr(DictGet(photographer, "name", JStr("TBD"))) \o <<"\n">>
                    \o (IF Truthy(DictGet(result, "notes", PyNone))
                        THEN <<"Notes: ">> \o PyStr(result.d["notes"]) \o <<"\n">>
                        ELSE <<>>)
                    \o (IF DictGet(result, "status", PyNone) = JStr("completed")
                        THEN <<"\n[camera] Photos Ready: ">>
                             \o PyStr(DictGet(result, "photo_count", JNum(0)))
                             \o <<" images available\n">>
                        ELSE <<>>))

\* handle_create_editing_job, after the await
handle_create_editing_job_end(args, r) ==
    IF ~r.ok THEN Raise(r.exc)
    ELSE
    LET result == r.val
    IN  IF ~IsDict(result) THEN Raise(AttributeError(result, "get"))
        ELSE
        LET job_id == DictGet(result, "job_id", PyNone)
            status == DictGet(result, "status", JStr("pending"))
            estimated_completion == DictGet(result, "estimated_completion", JStr("N/A"))
        IN  IF ~IsStr(status) THEN Raise(AttributeError(status, "title"))
            ELSE Ok(<<"[art] Editing Job Created Successfully!\n\n", "Job ID: ">>
                    \o PyStr(job_id) \o <<"\n", "Status: ", Title(status.s), "\n",
                       "Editing Type: ">> \o PyStr(args["editing_type"])
                    \o <<"\n", "Estimated Completion: ">> \o PyStr(estimated_completion)
                    \o <<"\n">>
                    \o (IF "booking_id" \in DOMAIN args
                        THEN <<"Source Booking: ">> \o PyStr(args["booking_id"]) \o <<"\n">>
                        ELSE <<>>))

MediaLine(item) ==
    <<"   * ">> \o PyStr(DictGet(item, "filename", JStr("Unknown"))) \o <<" - ">>
    \o PyStr(DictGet(item, "url", JStr("No URL"))) \o <<"\n">>

IsPhoto(item) == DictGet(item, "type", PyNone) = JStr("photo")

\* The video test taken as "whatever is no photo".
IsVideo_NotPhoto(item) == DictGet(item, "type", PyNone) # JStr("photo")

IsVideo(item) == DictGet(item, "type", PyNone) = JStr("video")

\* handle_get_booking_media, after the await
handle_get_booking_media_end(args, r) ==
    IF ~r.ok THEN Raise(r.exc)
    ELSE
    LET result == r.val
        head == <<"Media from Booking ">> \o PyStr(args["booking_id"]) \o <<":\n\n">>
    IN  IF ~IsDict(result) THEN Raise(AttributeError(result, "get"))
        ELSE
        LET media_items == DictGet(result, "media", JList(<<>>))
        IN  IF ~Truthy(media_items) THEN Ok(head \o <<"No media available for this booking.">>)
            ELSE IF ~Iterable(media_items) THEN Raise(IterError(media_items))
            ELSE IF AnyBad([i \in 1..Len(Iter(media_items)) |-> NotDict(Iter(media_items)[i])])
            THEN Raise(AttributeError(FirstBad(Iter(media_items), [i \in 1..Len(Iter(media_items)) |-> NotDict(Iter(media_items)[i])]), "get"))
            ELSE LET photos == SelectSeq(Iter(media_items), IsPhoto)
                     videos == SelectSeq(Iter(media_items), IsVideo)
                 IN  Ok(head
                        \o (IF photos # <<>>
                            THEN <<"[camera] Photos (", ToString(Len(photos)), "):\n">>
                                 \o Lines([i \in 1..Len(photos) |-> MediaLine(photos[i])])
                            ELSE <<>>)
                        \o (IF videos # <<>>
                            THEN <<"\n[video] Videos (", ToString(Len(videos)), "):\n">>
                                 \o Lines([i \in 1..Len(videos) |-> MediaLine(videos[i])])
                            ELSE <<>>))

-----------------------------------------------------------------------------
(* call_tool *)

\* The names the if/elif chain of call_tool routes.
ToolNames ==
    {"list_shoot_types", "list_editing_job_types", "check_coverage", "find_availability",
     "create_booking", "list_bookings", "get_booking", "create_editing_job",
     "get_booking_media"}

UnknownToolMsg(name) == <<"Unknown tool: ", name>>

\* The routing with a final else that falls through to the first handler.
HandlerBegin_DefaultRoute(name, args) ==
    CASE name = "list_editing_job_types" -> handle_list_editing_job_types_begin(args)
      [] name = "check_coverage" -> handle_check_coverage_begin(args)
      [] name = "find_availability" -> handle_find_availability_begin(args)
      [] name = "create_booking" -> handle_create_booking_begin(args)
      [] name = "list_bookings" -> handle_list_bookings_begin(args)
      [] name = "get_booking" -> handle_get_booking_begin(args)
      [] name = "create_editing_job" -> handle_create_editing_job_begin(args)
      [] name = "get_booking_media" -> handle_get_booking_media_begin(args)
      [] OTHER -> handle_list_shoot_types_begin(args)

\* The handler call_tool routes 'name' to, up to its awaited adapter call; the
\* final else raises ValueError.
HandlerBegin(name, args) ==
    CASE name = "list_shoot_types" -> handle_list_shoot_types_begin(args)
      [] name = "list_editing_job_types" -> handle_list_editing_job_types_begin(args)
      [] name = "check_coverage" -> handle_check_coverage_begin(args)
      [] name = "find_availability" -> handle_find_availability_begin(args)
      [] name = "create_booking" -> handle_create_booking_begin(args)
      [] name = "list_bookings" -> handle_list_bookings_begin(args)
      [] name = "get_booking" -> handle_get_booking_begin(args)
      [] name = "create_editing_job" -> handle_create_editing_job_begin(args)
      [] name = "get_booking_media" -> handle_get_booking_media_begin(args)
      [] OTHER -> Raise(Exc("ValueError", UnknownToolMsg(name)))

\* The same handler from the adapter's answer r on.
HandlerEnd(v, name, args, r) ==
    CASE name = "list_shoot_types" ->
            IF v = "app" THEN handle_list_shoot_types_app(args, r)
            ELSE handle_list_shoot_types_mcp(args, r)
      [] name = "list_editing_job_types" ->
            IF v = "app" THEN handle_list_editing_job_types_app(args, r)
            ELSE handle_list_editing_job_types_mcp(args, r)
      [] name = "check_coverage" -> handle_check_coverage_end(args, r)
      [] name = "find_availability" -> handle_find_availability_end(args, r)
      [] name = "create_booking" -> handle_create_booking_end(args, r)
      [] name = "list_bookings" -> handle_list_bookings_end(args, r)
      [] name = "get_booking" -> handle_get_booking_end(args, r)
      [] name = "create_editing_job" -> handle_create_editing_job_end(args, r)
      [] name = "get_booking_media" -> handle_get_booking_media_end(args, r)

\* The fault raised inside the handler from the adapter's answer on, whether the
\* handler's own except caught it or not (NoExc when none was raised).
HandlerFault(v, name, args, r) ==
    CASE name = "list_shoot_types" ->
            IF v = "app" THEN ShootTypesBodyApp(r).exc ELSE ShootTypesBodyMcp(r).exc
      [] name = "list_editing_job_types" /\ v = "mcp" -> EditingTypesBodyMcp(r).exc
      [] OTHER -> HandlerEnd(v, name, args, r).exc

TextBlock(text) == [type |-> "text", text |-> text]

\* The fault classes 'except Exception' catches: every class the program and its
\* libraries raise here derives from Exception; CancelledError, KeyboardInterrupt
\* and SystemExit derive from BaseException only.
IsException(cls) == cls \notin {"CancelledError", "KeyboardInterrupt", "SystemExit"}

\* call_tool with "except ValueError": other faults leave call_tool.
CallToolReturn_ValueErrorOnly(out) ==
    IF out.ok THEN [result |-> <<TextBlock(out.val)>>, escaped |-> NoExc]
    ELSE IF out.exc.cls = "ValueError"
    THEN [result |-> <<TextBlock(<<"Error: ">> \o out.exc.msg)>>, escaped |-> NoExc]
    ELSE [result |-> <<>>, escaped |-> out.exc]

\* call_tool returning the fault's message without the "Error: " prefix.
CallToolReturn_NoPrefix(out) ==
    IF out.ok THEN [result |-> <<TextBlock(out.val)>>, escaped |-> NoExc]
    ELSE [result |-> <<TextBlock(out.exc.msg)>>, escaped |-> NoExc]

\* How call_tool ends, given what its try block came to (out: the handler's text,
\* or the fault raised by get_client, the routing or the handler):
\*     except Exception as e: return [{"type": "text", "text": f"Error: {str(e)}"}]
\* result is the returned list of blocks, escaped the fault that left call_tool.
CallToolReturn(out) ==
    IF out.ok THEN [result |-> <<TextBlock(out.val)>>, escaped |-> NoExc]
    ELSE IF IsException(out.exc.cls)
    THEN [result |-> <<TextBlock(<<"Error: ">> \o out.exc.msg)>>, escaped |-> NoExc]
    ELSE [result |-> <<>>, escaped |-> out.exc]

\* An adapter that sends a failed request once more.
RequestsAfter_Retry(requests, r) ==
    IF r.ok THEN requests ELSE Append(requests, requests[Len(requests)])

\* The requests an invocation has issued once its adapter call ended in r: the
\* except clauses of get and post raise and send nothing again.
RequestsAfter(requests, r) == requests

\* The least position i >= from at which p occurs in s, 0 when there is none.
RECURSIVE Find(_, _, _)
Find(s, p, from) ==
    IF from + Len(p) - 1 > Len(s) THEN 0
    ELSE IF SubSeq(s, from, from + Len(p) - 1) = p THEN from
    ELSE Find(s, p, from + 1)

\* The greatest position i <= upto at which p occurs in s, 0 when there is none.
RECURSIVE RFind(_, _, _)
RFind(s, p, upto) ==
    IF upto < 1 THEN 0
    ELSE IF upto + Len(p) - 1 <= Len(s) /\ SubSeq(s, upto, upto + Len(p) - 1) = p
    THEN upto
    ELSE RFind(s, p, upto - 1)

\* urllib.parse.urlsplit on an absolute URL without query or fragment: the
\* scheme with its "://" and the authority, then the path.
UrlSplit(u) ==
    LET i == Find(u, "://", 1)
        j == IF i = 0 THEN 0 ELSE Find(u, "/", i + 3)
    IN  IF i = 0 THEN [origin |-> "", path |-> u]
        ELSE IF j = 0 THEN [origin |-> u, path |-> ""]
        ELSE [origin |-> SubSeq(u, 1, j - 1), path |-> SubSeq(u, j, Len(u))]

\* urljoin taken as string concatenation.
urljoin_Concat(base, url) == base \o url

\* urllib.parse.urljoin(base, url) for references without query, fragment or
\* dot segments: an empty reference gives the base, an absolute one itself, a
\* leading-slash one replaces the base's path, any other replaces what follows
\* the last "/" of the base's path.
urljoin(base, url) ==
    LET b == UrlSplit(base)
        k == RFind(b.path, "/", Len(b.path))
    IN  IF base = "" THEN url
        ELSE IF url = "" THEN base
        ELSE IF Find(url, "://", 1) > 0 THEN url
        ELSE IF SubSeq(url, 1, 1) = "/" THEN b.origin \o url
        ELSE IF b.path = "" THEN b.origin \o "/" \o url
        ELSE b.origin \o SubSeq(b.path, 1, k) \o url

\* The request the adapter sends for a handler's call: the endpoint resolved
\* against the client's base URL, with the client's headers.
Outbound(client, req) ==
    [method |-> req.method, endpoint |-> req.endpoint, payload |-> req.payload,
     base_url |-> client.base_url, url |-> urljoin(client.base_url, req.endpoint),
     headers |-> client.headers]

-----------------------------------------------------------------------------
(* Diagnostic output: the lines print / debug_print write that interpolate    *)
(* the credential, the client's headers or a SNAPPR_* variable.  The other    *)
(* diagnostic lines interpolate the endpoint, the parameters and the answer.  *)

\* f"{self.headers}": repr of the headers dict, keys in insertion order
HeadersRepr(h) ==
    "{'Authorization': '" \o h["Authorization"]
    \o "', 'Content-Type': '" \o h["Content-Type"]
    \o "', 'User-Agent': '" \o h["User-Agent"]
    \o "', 'accept-version': '" \o h["accept-version"] \o "'}"

\* debug_print of src/snappr_mcp.py prefixes the line and writes it to stderr;
\* src/app.py calls print, which writes the line as it is to stdout.
DiagLine(v, line) == IF v = "mcp" THEN <<"[SNAPPR_DEBUG] ">> \o line ELSE line

\* One line of the loop over os.environ in get_client of src/snappr_mcp.py.
EnvDumpLine(e, name) ==
    IF e[name].set
    THEN <<<<"SNAPPR_CLIENT_DEBUG: ", name, " = ",
            IF Len(e[name].val) > 20 THEN Prefix(e[name].val, 20) \o "..."
            ELSE e[name].val>>>>
    ELSE <<>>

\* What get_client writes about the credential when it finds the global unset.
get_client_log(v, glob, e) ==
    IF glob # PyNone THEN <<>>
    ELSE LET api_key == Getenv(e, "SNAPPR_API_KEY")
             dump == IF v = "mcp"
                     THEN EnvDumpLine(e, "SNAPPR_API_KEY")
                          \o EnvDumpLine(e, "SNAPPR_USE_SANDBOX")
                          \o EnvDumpLine(e, "SNAPPR_BASE_URL")
                     ELSE <<>>
         IN  dump \o
             (IF Truthy(api_key)
              THEN <<<<"SNAPPR_CLIENT_DEBUG: API Key starts with: ",
                       Prefix(api_key.s, 10), "...">>,
                     <<"SNAPPR_CLIENT_DEBUG: Authorization header: Bearer ",
                       Prefix(api_key.s, 10), "...">>>>
              ELSE <<>>)

\* handle_list_shoot_types writes the client's headers before its request.
handler_log(name, client) ==
    IF name = "list_shoot_types"
    THEN <<<<"SNAPPR_DEBUG: Using headers: ", HeadersRepr(client.headers)>>>>
    ELSE <<>>

\* SnapprClient.get writes the headers it sends; SnapprClient.post writes nothing.
adapter_log(client, req) ==
    IF req.method = "GET"
    THEN <<<<"SNAPPR_HTTP_DEBUG: Headers: ", HeadersRepr(client.headers)>>>>
    ELSE <<>>

\* The lines one invocation writes up to its request.
InvocationLog(v, glob, e, name, gc, hb) ==
    LET lines == get_client_log(v, glob, e)
                 \o (IF gc.ok /\ hb.ok
                     THEN handler_log(name, gc.val) \o adapter_log(gc.val, hb.val)
                     ELSE <<>>)
    IN  [i \in 1..Len(lines) |-> DiagLine(v, lines[i])]

-----------------------------------------------------------------------------
(* State *)

Tasks == {"t1", "t2"}

\* fault: the fault raised inside the call, by get_client, the routing, the handler
\*        or the adapter (NoExc when none was), whoever caught it;
\* requests: the HTTP requests the invocation issued, in order;
\* built: this invocation's get_client constructed the client;
\* log: the diagnostic lines the invocation wrote about the credential.
Idle ==
    [pc |-> "idle", name |-> "", args |-> <<>>, built |-> FALSE, requests |-> <<>>,
     outcome |-> PyNone, fault |-> NoExc, result |-> <<>>, escaped |-> NoExc,
     log |-> <<>>]

Init ==
    /\ variant \in {"app", "mcp"}
    /\ env \in Environments
    /\ snappr_client = PyNone
    /\ task = [t \in Tasks |-> Idle]
    /\ listed = <<>>

-----------------------------------------------------------------------------
(* Inputs: the invocations the transport delivers and what upstream answers *)

OtherNames == {"nonexistent_tool", "List_Shoot_Types"}
Names == ToolNames \cup OtherNames

ArgValue(k) ==
    CASE k = "latitude" -> JNum(40)
      [] k = "longitude" -> JNum(-74)
      [] k = "duration" -> JNum(60)
      [] k = "limit" -> JNum(5)
      [] k = "offset" -> JNum(0)
      [] k = "image_urls" -> JList(<<JStr("https://img.example.test/1.jpg")>>)
      [] k = "address" -> JStr("1 Main St")
      [] k = "shoot_type" -> JStr("food")
      [] k = "location" -> JStr("Austin")
      [] k = "booking_id" -> JStr("bk_42")
      [] k = "media_type" -> JStr("photos")
      [] k = "status" -> JStr("confirmed")
      [] OTHER -> JStr("<" \o k \o ">")

ArgsOver(keys) == [k \in keys |-> ArgValue(k)]

\* The "required" list of each tool's input schema in the catalog (list_tools).
RequiredArgs(name) ==
    CASE name = "check_coverage" -> <<"address", "shoot_type">>
      [] name = "find_availability" -> <<"location", "shoot_type", "date_from", "date_to">>
      [] name = "create_booking" ->
            <<"shoot_type", "location", "start_time", "duration", "contact_name",
              "contact_email">>
      [] name = "get_booking" -> <<"booking_id">>
      [] name = "create_editing_job" -> <<"editing_type">>
      [] name = "get_booking_media" -> <<"booking_id">>
      [] OTHER -> <<>>

Range(f) == {f[i] : i \in DOMAIN f}

\* The names of the Tool descriptors list_tools returns, in the order of its
\* list literal.
CatalogNames ==
    <<"list_shoot_types", "list_editing_job_types", "check_coverage", "find_availability",
      "create_booking", "list_bookings", "get_booking", "create_editing_job",
      "get_booking_media">>

\* A catalog that names one tool twice and leaves one out.
list_tools_Duplicate ==
    [i \in 1..Len(CatalogNames) |->
        LET n == IF i = Len(CatalogNames) THEN CatalogNames[1] ELSE CatalogNames[i]
        IN  [name |-> n, required |-> RequiredArgs(n)]]

\* list_tools(): the list literal of Tool descriptors, each with its name and
\* the "required" list of its input schema; it reads no state.
list_tools ==
    [i \in 1..Len(CatalogNames) |->
        [name |-> CatalogNames[i], required |-> RequiredArgs(CatalogNames[i])]]
Req0(name) == Range(RequiredArgs(name))

\* The key sets of the argument mappings drawn for each tool: all required
\* arguments with and without optional ones, and mappings that lack some.
ArgKeySets(name) ==
    CASE name = "check_coverage" ->
            {Req0(name), Req0(name) \cup {"latitude", "longitude"},
             Req0(name) \cup {"latitude"}, {"address"}, {"shoot_type"}, {}}
      [] name = "find_availability" ->
            {Req0(name), Req0(name) \cup {"duration"}, Req0(name) \ {"date_to"},
             Req0(name) \ {"location", "date_from"}, {}}
      [] name = "create_booking" ->
            {Req0(name), Req0(name) \cup {"contact_phone", "notes"},
             Req0(name) \ {"contact_email"}, Req0(name) \ {"duration", "start_time"}, {}}
      [] name = "list_bookings" -> {{}, {"status"}, {"status", "limit", "offset"}}
      [] name = "get_booking" -> {Req0(name), {}, {"media_type"}}
      [] name = "create_editing_job" ->
            {Req0(name), Req0(name) \cup {"booking_id", "instructions", "image_urls"},
             {"booking_id"}, {}}
      [] name = "get_booking_media" -> {Req0(name), Req0(name) \cup {"media_type"}, {}}
      [] OTHER -> {{}, {"address"}}

ArgSets(name) ==
    {ArgsOver(ks) : ks \in ArgKeySets(name)}
    \cup (IF name = "get_booking_media"
          THEN {("booking_id" :> JStr("bk_42")) @@ ("media_type" :> JStr("all"))}
          ELSE {})

\* Answers of no particular shape, drawn for every tool.
OddBodies ==
    {JList(<<>>), JList(<<JStr("a"), JStr("b")>>), JStr("oops"), PyNone, EmptyDict,
     JDict("error" :> JStr("boom"))}

Food == JDict(("name" :> JStr("food")) @@ ("display_name" :> JStr("Food")))
Booking1 ==
    JDict(("booking_id" :> JStr("bk_42")) @@ ("shoot_type" :> JStr("food"))
          @@ ("status" :> JStr("confirmed")) @@ ("location" :> JStr("Austin")))
Slot(d, tm) == JDict(("date" :> JStr(d)) @@ ("time" :> JStr(tm)))
Media(ty, fn) == JDict(("type" :> JStr(ty)) @@ ("filename" :> JStr(fn)))

\* An answer of find_availability with more slots than the handler shows.
ManySlotsLen == 12
ManySlots == [i \in 1..ManySlotsLen |-> Slot("2026-02-" \o ToString(9 + i), "09:00")]

\* The answer of the documented shape for each tool.
GoodBody(name) ==
    CASE name = "list_shoot_types" ->
            JDict(("results" :> JList(<<Food>>)) @@ ("count" :> JNum(1))
                  @@ ("total" :> JNum(1)))
      [] name = "list_editing_job_types" ->
            JDict(("results" :> JList(<<Food, JStr("retouch")>>)) @@ ("count" :> JNum(2))
                  @@ ("total" :> JNum(2)))
      [] name = "check_coverage" ->
            JDict(("coverage" :> JBool(TRUE)) @@ ("latitude" :> JNum(1))
                  @@ ("longitude" :> JNum(2)))
      [] name = "find_availability" ->
            JDict("available_slots" :> JList(<<Slot("2026-01-10", "09:00"),
                                               Slot("2026-01-11", "14:00")>>))
      [] name = "create_booking" ->
            JDict(("booking_id" :> JStr("bk_42")) @@ ("status" :> JStr("confirmed")))
      [] name = "list_bookings" ->
            JDict(("bookings" :> JList(<<Booking1>>)) @@ ("total" :> JNum(1)))
      [] name = "get_booking" ->
            JDict(("shoot_type" :> JStr("food")) @@ ("status" :> JStr("completed"))
                  @@ ("photographer" :> JDict("name" :> JStr("Lee")))
                  @@ ("photo_count" :> JNum(12)) @@ ("notes" :> JStr("ring twice")))
      [] name = "create_editing_job" ->
            JDict(("job_id" :> JStr("job_7")) @@ ("status" :> JStr("pending"))
                  @@ ("estimated_completion" :> JStr("2026-01-12")))
      [] name = "get_booking_media" ->
            JDict("media" :> JList(<<Media("photo", "a.jpg"), Media("video", "b.mp4"),
                                     Media("raw", "c.dng")>>))
      [] OTHER -> EmptyDict

\* Further answers per tool: other keys, empty collections, wrongly typed fields.
MoreBodies(name) ==
    CASE name = "list_shoot_types" ->
            {JDict("results" :> JList(<<>>)), JDict("data" :> JList(<<Food>>)),
             JDict("results" :> JList(<<JDict("name" :> JStr("real-estate")), Food>>)),
             JDict(("results" :> JList(<<>>)) @@ ("data" :> JList(<<Food>>))),
             JDict(("data" :> JList(<<>>)) @@ ("types" :> JList(<<JStr("food")>>))),
             JDict("results" :> JNum(3)), JDict("data" :> JNum(3))}
      [] name = "list_editing_job_types" ->
            {JDict("results" :> JList(<<>>)), JDict("editing_job_types" :> JList(<<Food>>)),
             JDict("data" :> JList(<<JStr("retouch")>>)), JDict("results" :> JNum(3)),
             JDict("types" :> JNum(3))}
      [] name = "check_coverage" ->
            {JDict("coverage" :> JBool(FALSE)),
             JDict(("coverage" :> JBool(TRUE)) @@ ("latitude" :> JNum(1))),
             JDict("coverage" :> JStr("no")),
             JDict(("coverage" :> JNum(0)) @@ ("latitude" :> PyNone)
                   @@ ("longitude" :> PyNone))}
      [] name = "find_availability" ->
            {JDict("available_slots" :> JList(<<>>)), JDict("available_slots" :> JStr("soon")),
             JDict("available_slots" :> JList(ManySlots)),
             JDict("available_slots" :> JNum(2)),
             JDict("available_slots" :> JList(<<Slot("2026-01-10", "09:00"), JStr("x")>>))}
      [] name = "create_booking" ->
            {JDict(("booking_id" :> JStr("bk_42")) @@ ("status" :> JNum(1)))}
      [] name = "list_bookings" ->
            {JDict("bookings" :> PyNone), JDict("bookings" :> JList(<<JStr("bk_42")>>)),
             JDict("bookings" :> JList(<<Booking1, JDict("status" :> PyNone)>>))}
      [] name = "get_booking" ->
            {JDict(("status" :> JStr("pending")) @@ ("photographer" :> PyNone)),
             JDict("status" :> PyNone)}
      [] name = "create_editing_job" -> {JDict("status" :> JBool(TRUE))}
      [] name = "get_booking_media" ->
            {JDict("media" :> JNum(3)), JDict("media" :> JList(<<JStr("a.jpg")>>)),
             JDict("media" :> JList(<<>>)),
             JDict("media" :> JList(<<Media("raw", "c.dng")>>)),
             JDict("media" :> JList(<<Media("photo", "a.jpg"), Media("video", "b.mp4"),
                                      Media("photo", "d.jpg"),
                                      JDict("filename" :> JStr("e.bin"))>>))}
      [] OTHER -> {}

Bodies(name) == {GoodBody(name)} \cup MoreBodies(name) \cup OddBodies

\* The status codes drawn for answers that raise_for_status rejects.
ErrorCodes == {401, 404, 422, 500}

\* Every way the request of an invocation of 'name' can end.  The text of a
\* rejected answer stands for the body's JSON text.
Outcomes(name) ==
    {ConnectFailure("All connection attempts failed"), TimeoutFailure("timed out"),
     OtherFailure("ReadError", "peer closed connection"),
     BadJsonResponse(200, "<html>")}
    \cup {Response(c, StrOf(GoodBody(name)), GoodBody(name)) : c \in ErrorCodes}
    \cup {Response(200, "", b) : b \in Bodies(name)}

-----------------------------------------------------------------------------
(* Actions *)

\* call_tool(name, arguments), from entry to its first suspension: get_client,
\* the routing and the handler up to its awaited adapter call.  It ends here
\* when get_client, the routing or the handler raises.
Call(t, name, args) ==
    LET gc == get_client(variant, snappr_client, env)
        hb == IF gc.ok THEN HandlerBegin(name, args) ELSE Raise(gc.exc)
        ret == CallToolReturn(hb)
        log == InvocationLog(variant, snappr_client, env, name, gc, hb)
    IN  /\ snappr_client' = gc.glob
        /\ task' = [task EXCEPT ![t] =
               IF hb.ok
               THEN [Idle EXCEPT !.pc = "awaiting", !.name = name, !.args = args,
                                 !.built = (gc.glob # snappr_client), !.log = log,
                                 !.requests = <<Outbound(gc.val, hb.val)>>]
               ELSE [Idle EXCEPT !.pc = "done", !.name = name, !.args = args,
                                 !.built = (gc.glob # snappr_client), !.log = log,
                                 !.fault = hb.exc, !.result = ret.result,
                                 !.escaped = ret.escaped]]
        /\ UNCHANGED <<variant, env, listed>>

\* The transport delivers a tools/call request to an idle task.
CallTool(t) ==
    /\ task[t].pc = "idle"
    /\ \E name \in Names : \E args \in ArgSets(name) : Call(t, name, args)

\* The second half of call_tool when a failed connection ends the coroutine
\* without a return: the invocation is gone and no result was produced.
Resume_Dropped(t, o) ==
    LET req == task[t].requests[Len(task[t].requests)]
        r == ClientCall(req.method, req.endpoint, o)
        he == HandlerEnd(variant, task[t].name, task[t].args, r)
        ret == CallToolReturn(he)
    IN  /\ task' = IF o.kind = "connect_error"
                   THEN [task EXCEPT ![t] = Idle]
                   ELSE [task EXCEPT ![t].pc = "done", ![t].outcome = o,
                                     ![t].requests = RequestsAfter(task[t].requests, r),
                                     ![t].fault = HandlerFault(variant, task[t].name,
                                                               task[t].args, r),
                                     ![t].result = ret.result,
                                     ![t].escaped = ret.escaped]
        /\ UNCHANGED <<variant, env, snappr_client, listed>>

\* The second half of call_tool resumed with the name and arguments of another
\* invocation that is suspended at its request, as if the two shared them.
Resume_Crossed(t, o) ==
    LET others == {u \in Tasks \ {t} : task[u].pc = "awaiting"}
        u == IF others = {} THEN t ELSE CHOOSE x \in others : TRUE
        req == task[t].requests[Len(task[t].requests)]
        r == ClientCall(req.method, req.endpoint, o)
        he == HandlerEnd(variant, task[u].name, task[u].args, r)
        ret == CallToolReturn(he)
    IN  /\ task' = [task EXCEPT ![t].pc = "done", ![t].outcome = o,
                                ![t].requests = RequestsAfter(task[t].requests, r),
                                ![t].fault = HandlerFault(variant, task[u].name,
                                                          task[u].args, r),
                                ![t].result = ret.result, ![t].escaped = ret.escaped]
        /\ UNCHANGED <<variant, env, snappr_client, listed>>

\* The awaited request ends in outcome o: the adapter maps it, the handler
\* formats or faults, call_tool returns.
Resume(t, o) ==
    LET req == task[t].requests[Len(task[t].requests)]
        r == ClientCall(req.method, req.endpoint, o)
        he == HandlerEnd(variant, task[t].name, task[t].args, r)
        ret == CallToolReturn(he)
    IN  /\ task' = [task EXCEPT ![t].pc = "done", ![t].outcome = o,
                                ![t].requests = RequestsAfter(task[t].requests, r),
                                ![t].fault = HandlerFault(variant, task[t].name,
                                                          task[t].args, r),
                                ![t].result = ret.result, ![t].escaped = ret.escaped]
        /\ UNCHANGED <<variant, env, snappr_client, listed>>

Respond(t) ==
    /\ task[t].pc = "awaiting"
    /\ \E o \in Outcomes(task[t].name) : Resume(t, o)

\* The transport takes the result; nothing of the invocation is kept.
Collect(t) ==
    /\ task[t].pc = "done"
    /\ task' = [task EXCEPT ![t] = Idle]
    /\ UNCHANGED <<variant, env, snappr_client, listed>>

\* The transport delivers a tools/list query, at any moment, and takes the
\* catalog list_tools returns.
ListTools ==
    /\ listed' = list_tools
    /\ UNCHANGED <<variant, env, snappr_client, task>>

\* The host changes the SNAPPR_* variables between invocations.
SetEnv ==
    /\ \A t \in Tasks : task[t].pc = "idle"
    /\ env' \in Environments \ {env}
    /\ UNCHANGED <<variant, snappr_client, task, listed>>

\* One invocation at a time, as the transport delivers them.
Next ==
    \/ CallTool("t1")
    \/ Respond("t1")
    \/ Collect("t1")
    \/ ListTools
    \/ SetEnv

Spec == Init /\ [][Next]_vars

TypeOK ==
    /\ variant \in {"app", "mcp"}
    /\ env \in Environments
    /\ \A t \in Tasks : task[t].pc \in {"idle", "awaiting", "done"}
    /\ listed \in {<<>>, list_tools}

-----------------------------------------------------------------------------
(* Interleaved invocations: the event loop runs several call_tool coroutines, *)
(* each from one suspension to the next without interruption.  The inputs are *)
(* a part of those of Spec, so that two invocations can be followed together. *)

InterleavedNames == {"list_bookings", "create_booking", "nonexistent_tool"}

InterleavedArgs(name) ==
    IF name = "create_booking"
    THEN {ArgsOver(Req0(name)), ArgsOver(Req0(name) \ {"contact_email"})}
    ELSE {ArgsOver({})}

\* An answer both tools accept: a booking for create_booking, no "bookings" key
\* for list_bookings.
InterleavedBody == JDict(("booking_id" :> JStr("bk_42")) @@ ("status" :> JStr("confirmed")))

InterleavedOutcomes(name) ==
    {ConnectFailure("All connection attempts failed"),
     Response(401, "{'message': 'Unauthorized'}", JDict("message" :> JStr("Unauthorized"))),
     Response(200, "", InterleavedBody)}

CallToolInterleaved(t) ==
    /\ task[t].pc = "idle"
    /\ \E name \in InterleavedNames : \E args \in InterleavedArgs(name) :
          Call(t, name, args)

RespondInterleaved(t) ==
    /\ task[t].pc = "awaiting"
    /\ \E o \in InterleavedOutcomes(task[t].name) : Resume(t, o)

NextInterleaved ==
    \/ \E t \in Tasks : CallToolInterleaved(t)
    \/ \E t \in Tasks : RespondInterleaved(t)
    \/ \E t \in Tasks : Collect(t)
    \/ SetEnv

SpecInterleaved == Init /\ [][NextInterleaved]_vars

\* Every request ends: httpx.AsyncClient(timeout=30.0) bounds the wait for the
\* connection and for the answer, and the event loop resumes the suspended
\* coroutine with what the request ended in.
SpecLive ==
    /\ Init
    /\ [][NextInterleaved]_vars
    /\ \A t \in Tasks : WF_vars(RespondInterleaved(t))

-----------------------------------------------------------------------------
(* Recovery: the host sets, empties or unsets the credential once a failed     *)
(* invocation has ended, whether or not the transport has taken its result.   *)

SetEnvBetween ==
    /\ \A t \in Tasks : task[t].pc # "awaiting"
    /\ \E k \in KeyValues \ {env.SNAPPR_API_KEY} :
          env' = [env EXCEPT !.SNAPPR_API_KEY = k]
    /\ UNCHANGED <<variant, snappr_client, task, listed>>

NextRecover ==
    \/ \E t \in Tasks : CallToolInterleaved(t)
    \/ \E t \in Tasks : RespondInterleaved(t)
    \/ \E t \in Tasks : Collect(t)
    \/ SetEnvBetween

SpecRecover == Init /\ [][NextRecover]_vars

-----------------------------------------------------------------------------

(* The adapter on its own: SnapprClient.get and SnapprClient.post called with *)
(* an endpoint of either form, under base URLs with and without a trailing    *)
(* slash and with and without a path.                                         *)

UrlBaseValues ==
    BaseUrlValues
    \cup {SetTo("https://proxy.example.test/v2"), SetTo("https://proxy.example.test"),
          SetTo("https://proxy.example.test/api/v2")}

UrlEnvironments ==
    [SNAPPR_API_KEY : {SetTo(TheKey)}, SNAPPR_USE_SANDBOX : SandboxValues,
     SNAPPR_BASE_URL : UrlBaseValues]

UrlEndpoints == {"shoottypes", "bookings/bk_42/media", "/shoottypes", "/v1/coverage"}

InitUrl ==
    /\ variant \in {"app", "mcp"}
    /\ env \in UrlEnvironments
    /\ snappr_client = PyNone
    /\ task = [t \in Tasks |-> Idle]
    /\ listed = <<>>

\* get(endpoint) or post(endpoint, data) on the client get_client returns, up
\* to the awaited request: the URL is built and the request is sent.
AdapterRequest(t) ==
    LET gc == get_client(variant, snappr_client, env)
    IN  /\ task[t].pc = "idle"
        /\ gc.ok
        /\ \E method \in {"GET", "POST"} : \E endpoint \in UrlEndpoints :
              task' = [task EXCEPT ![t] =
                          [Idle EXCEPT !.pc = "awaiting",
                                       !.built = (gc.glob # snappr_client),
                                       !.requests =
                                           <<Outbound(gc.val,
                                                      Req(method, endpoint, PyNone))>>]]
        /\ snappr_client' = gc.glob
        /\ UNCHANGED <<variant, env, listed>>

\* The awaited request ends, in an answer or a failure, and get / post returns
\* or raises.
AdapterAnswer(t) ==
    /\ task[t].pc = "awaiting"
    /\ \E o \in InterleavedOutcomes("") :
          LET req == task[t].requests[1]
              r == ClientCall(req.method, req.endpoint, o)
          IN  task' = [task EXCEPT ![t].pc = "done", ![t].outcome = o,
                                   ![t].fault = IF r.ok THEN NoExc ELSE r.exc]
    /\ UNCHANGED <<variant, env, snappr_client, listed>>

NextUrl ==
    \/ AdapterRequest("t1")
    \/ AdapterAnswer("t1")
    \/ Collect("t1")

SpecUrl == InitUrl /\ [][NextUrl]_vars

-----------------------------------------------------------------------------

(* Properties *)

\* text contains message: msg is a contiguous run of segments of text
Contains(text, msg) ==
    \E i \in 0..(Len(text) - Len(msg)) :
        \A j \in 1..Len(msg) : text[i + j] = msg[j]

Done(t) == task[t].pc = "done"
InFlight(t) == task[t].pc \in {"awaiting", "done"}
OneTextBlock(t) == Len(task[t].result) = 1 /\ task[t].result[1].type = "text"
ResultText(t) == task[t].result[1].text
IsText(x) == DOMAIN x = 1..Len(x) /\ \A j \in 1..Len(x) : x[j] \in STRING
ErrorText(msg) == <<"Error: ">> \o msg
CredentialSet(e) == e.SNAPPR_API_KEY.set /\ e.SNAPPR_API_KEY.val # ""
LacksRequired(t) == Req0(task[t].name) \ DOMAIN task[t].args # {}
Answered(t, code) ==
    /\ Done(t)
    /\ task[t].outcome # PyNone
    /\ task[t].outcome.kind = "response"
    /\ task[t].outcome.code = code

\* C1: call_tool never lets a fault escape: whatever the tool name, the
\* arguments, the environment and the upstream outcome, a finished call_tool has
\* returned a non-empty list of blocks {type: "text", text: <string>} and no
\* fault has left it.
C1_NoFaultEscapes ==
    \A t \in Tasks :
        Done(t) =>
            /\ task[t].escaped = NoExc
            /\ Len(task[t].result) >= 1
            /\ \A i \in 1..Len(task[t].result) :
                   /\ DOMAIN task[t].result[i] = {"type", "text"}
                   /\ task[t].result[i].type = "text"
                   /\ IsText(task[t].result[i].text)

\* C1 witness: a call ended although a fault that is no ValueError was raised on
\* an oddly shaped upstream answer.
C1_Witness ==
    \E t \in Tasks :
        /\ Answered(t, 200)
        /\ task[t].fault.cls \in {"AttributeError", "TypeError", "JSONDecodeError"}
        /\ task[t].result # <<>>

CatchesItsOwnFaults(v, name) ==
    \/ name = "list_shoot_types"
    \/ name = "list_editing_job_types" /\ v = "mcp"

C3_UnknownToolAlways ==
    \A t \in Tasks :
        (Done(t) /\ task[t].name \notin ToolNames) =>
            /\ OneTextBlock(t)
            /\ Contains(ResultText(t), UnknownToolMsg(task[t].name))
            /\ task[t].requests = <<>>

\* C3 amended: for every name outside the nine, no upstream request is issued
\* and the result is one text block; its text is "Error: Unknown tool: <name>"
\* when a client is available (constructed earlier, or the credential is set so
\* that get_client constructs it), and the configuration error when no client
\* exists and the credential is unset or empty, since get_client runs before
\* the name is looked at.
C3_UnknownTool ==
    \A t \in Tasks :
        (InFlight(t) /\ task[t].name \notin ToolNames) =>
            /\ Done(t)
            /\ OneTextBlock(t)
            /\ task[t].requests = <<>>
            /\ (CredentialSet(env) => snappr_client # PyNone)
            /\ IF snappr_client # PyNone
               THEN ResultText(t) = ErrorText(UnknownToolMsg(task[t].name))
               ELSE ResultText(t) = ErrorText(ConfigErrorMsg)

\* C3 witness: an unknown name was called with the credential unset and no client.
C3_Witness ==
    \E t \in Tasks :
        /\ Done(t)
        /\ task[t].name = "nonexistent_tool"
        /\ ~env.SNAPPR_API_KEY.set
        /\ snappr_client = PyNone

\* C4 as stated: for every tool with required arguments and every argument
\* mapping that lacks one, the result is one text block naming a missing
\* required argument, and no upstream request is issued.
C4_MissingArgumentAlways ==
    \A t \in Tasks :
        (InFlight(t) /\ task[t].name \in ToolNames /\ LacksRequired(t)) =>
            /\ Done(t)
            /\ OneTextBlock(t)
            /\ \E k \in Req0(task[t].name) \ DOMAIN task[t].args :
                   Contains(ResultText(t), <<"'" \o k \o "'">>)
            /\ task[t].requests = <<>>

\* C4 amended: for every tool with required arguments and every argument mapping
\* that lacks one, no upstream request is issued and the result is one text
\* block; it names a missing required argument when a client is available
\* (constructed earlier, or the credential is set), and is the configuration
\* error when no client exists and the credential is unset or empty.
C4_MissingArgument ==
    \A t \in Tasks :
        (InFlight(t) /\ task[t].name \in ToolNames /\ LacksRequired(t)) =>
            /\ Done(t)
            /\ OneTextBlock(t)
            /\ task[t].requests = <<>>
            /\ (CredentialSet(env) => snappr_client # PyNone)
            /\ IF snappr_client # PyNone
               THEN \E k \in Req0(task[t].name) \ DOMAIN task[t].args :
                        ResultText(t) = ErrorText(<<"'" \o k \o "'">>)
               ELSE ResultText(t) = ErrorText(ConfigErrorMsg)

\* C4 witness: create_booking was called without contact_email, with a client.
C4_Witness ==
    \E t \in Tasks :
        /\ Done(t)
        /\ task[t].name = "create_booking"
        /\ "contact_email" \notin DOMAIN task[t].args
        /\ "shoot_type" \in DOMAIN task[t].args
        /\ snappr_client # PyNone

\* C5: for each of the nine tools, when the upstream service answers the tool's
\* request with status 401, the result text contains the authentication-failure
\* message, which names the credential variable SNAPPR_API_KEY, and no fault
\* reaches the transport.
C5_AuthFailureNamed ==
    \A t \in Tasks :
        (Answered(t, 401) /\ task[t].name \in ToolNames) =>
            /\ task[t].escaped = NoExc
            /\ OneTextBlock(t)
            /\ Contains(ResultText(t), AuthErrorMsg)
            /\ Contains(ResultText(t), <<"SNAPPR_API_KEY">>)

\* C5 witness: a tool sending a POST and a self-reporting tool both exist in the
\* catalog; here the POST of create_booking was answered with 401.
C5_Witness ==
    \E t \in Tasks :
        /\ Answered(t, 401)
        /\ task[t].name = "create_booking"
        /\ task[t].requests[1].method = "POST"

\* C6: get and post map each failed request to one error class: host
\* unreachable to a connectivity failure; timeout to a timeout failure; status
\* 401 to the authentication failure; status 404 to an endpoint-not-found
\* failure whose message contains the endpoint passed in; any other 4xx/5xx
\* status to a generic failure whose message contains the status code and the
\* response body text; any other fault leaves the adapter unchanged.
C6_ErrorTaxonomy ==
    \A t \in Tasks :
        (Done(t) /\ task[t].outcome # PyNone) =>
            LET o == task[t].outcome
                f == task[t].fault
                req == task[t].requests[1]
            IN  /\ req.method \in {"GET", "POST"}
                /\ o.kind = "connect_error" =>
                       f.cls = "ConnectionError" /\ Contains(f.msg, <<o.text>>)
                /\ o.kind = "timeout" =>
                       f.cls = "TimeoutError" /\ Contains(f.msg, <<o.text>>)
                /\ (o.kind = "response" /\ o.code = 401) =>
                       f = Exc("ValueError", AuthErrorMsg)
                /\ (o.kind = "response" /\ o.code = 404) =>
                       /\ f.cls = "ValueError"
                       /\ f.msg # AuthErrorMsg
                       /\ Contains(f.msg, <<"Snappr API endpoint not found: ", req.endpoint>>)
                /\ (o.kind = "response" /\ o.code >= 400 /\ o.code \notin {401, 404}) =>
                       /\ f.cls = "ValueError"
                       /\ Contains(f.msg, <<ToString(o.code)>>)
                       /\ Contains(f.msg, <<o.text>>)
                /\ o.kind = "other" => f = Exc(o.cls, <<o.text>>)

\* C6 witness: a POST timed out and post raised the timeout failure.
C6_Witness ==
    \E t \in Tasks :
        /\ Done(t)
        /\ task[t].outcome # PyNone
        /\ task[t].outcome.kind = "timeout"
        /\ task[t].requests[1].method = "POST"
        /\ task[t].fault.cls = "TimeoutError"

Failed(o) ==
    \/ o.kind \in {"connect_error", "timeout", "other"}
    \/ o.kind = "response" /\ IsErrorStatus(o.code)

\* C7: no upstream call is retried: every invocation issues at most one request;
\* exactly one when the credential is set, the tool name is known and all
\* required arguments are present; and an invocation whose request failed
\* (connect error, timeout, HTTP error status) has still issued exactly one.
C7_NoRetry ==
    \A t \in Tasks :
        /\ Len(task[t].requests) <= 1
        /\ (InFlight(t) /\ CredentialSet(env) /\ task[t].name \in ToolNames
                /\ ~LacksRequired(t)) => Len(task[t].requests) = 1
        /\ (Done(t) /\ task[t].outcome # PyNone /\ Failed(task[t].outcome)) =>
               Len(task[t].requests) = 1

\* C7 witness: an invocation ended after its only request was refused with 500.
C7_Witness ==
    \E t \in Tasks :
        /\ Answered(t, 500)
        /\ CredentialSet(env)
        /\ Len(task[t].requests) = 1

\* C8: while SNAPPR_API_KEY is absent or empty, client construction fails with
\* the configuration error: an invocation of any of the nine tools constructs no
\* client and, there being none, returns the single text block
\* "Error: SNAPPR_API_KEY environment variable is required" without issuing a
\* request.
C8_CredentialRequired ==
    \A t \in Tasks :
        (InFlight(t) /\ task[t].name \in ToolNames /\ ~CredentialSet(env)) =>
            /\ ~task[t].built
            /\ snappr_client = PyNone =>
                   /\ Done(t)
                   /\ task[t].fault = Exc("ValueError", ConfigErrorMsg)
                   /\ task[t].result = <<TextBlock(ErrorText(ConfigErrorMsg))>>
                   /\ Concat(ResultText(t)) =
                          "Error: SNAPPR_API_KEY environment variable is required"
                   /\ task[t].requests = <<>>

\* C8 witness: list_bookings was called with the credential set to the empty string.
C8_Witness ==
    \E t \in Tasks :
        /\ Done(t)
        /\ task[t].name = "list_bookings"
        /\ env.SNAPPR_API_KEY.set
        /\ env.SNAPPR_API_KEY.val = ""
        /\ snappr_client = PyNone

\* C9: when the credential is set and no base-URL override is set, the
\* constructed client's base URL is the sandbox host if and only if
\* SNAPPR_USE_SANDBOX, compared case-insensitively, equals "true"; otherwise it
\* is the production host.
C9_SandboxSelector ==
    \A t \in Tasks :
        (InFlight(t) /\ task[t].built /\ ~env.SNAPPR_BASE_URL.set) =>
            snappr_client.base_url =
                IF env.SNAPPR_USE_SANDBOX.set /\ Lower(env.SNAPPR_USE_SANDBOX.val) = "true"
                THEN "https://sandbox.snappr.com/"
                ELSE "https://api.snappr.com/"

\* C10: when the base-URL override variable is set, the constructed client's
\* base URL equals the override value whatever the sandbox selector flag.
C10_OverridePrecedence ==
    \A t \in Tasks :
        (InFlight(t) /\ task[t].built /\ env.SNAPPR_BASE_URL.set) =>
            snappr_client.base_url = env.SNAPPR_BASE_URL.val

Started(t) == task[t].pc = "idle" /\ task'[t].pc # "idle"
UsesClient(tk, c) ==
    \A i \in 1..Len(tk.requests) :
        tk.requests[i].base_url = c.base_url /\ tk.requests[i].headers = c.headers

\* C11: the client is constructed lazily and at most once: over any sequence
\* and any interleaving of invocations, the global is set only by an invocation
\* that finds it unset, to the client made from the environment of that moment;
\* once it is set, every later invocation leaves it as it is, constructs
\* nothing, and sends its request with that client's host and headers whatever
\* the environment has become.
C11_ConstructedOnce ==
    [][/\ snappr_client = PyNone /\ snappr_client' # PyNone =>
              /\ CredentialSet(env)
              /\ snappr_client' = SnapprClient(variant, env.SNAPPR_API_KEY.val,
                                               UseSandbox(env), env)
              /\ \E t \in Tasks : Started(t) /\ task'[t].built
       /\ snappr_client # PyNone =>
              /\ snappr_client' = snappr_client
              /\ \A t \in Tasks :
                     Started(t) => /\ ~task'[t].built
                                   /\ UsesClient(task'[t], snappr_client)
      ]_vars

\* C11 witness: two invocations are suspended at their requests; the first
\* constructed the client, the second found it and constructed nothing.
C11_Witness ==
    /\ task["t1"].pc = "awaiting" /\ task["t1"].built
    /\ task["t2"].pc = "awaiting" /\ ~task["t2"].built
    /\ UsesClient(task["t1"], snappr_client)
    /\ UsesClient(task["t2"], snappr_client)

\* C12: once the client has been constructed it is read-only: no step of any
\* invocation, successful or failing, changes its api_key, base_url or headers,
\* and the global is never set to another client or back to unset.
C12_ClientReadOnly ==
    [][snappr_client # PyNone =>
           /\ snappr_client' # PyNone
           /\ snappr_client'.api_key = snappr_client.api_key
           /\ snappr_client'.base_url = snappr_client.base_url
           /\ snappr_client'.headers = snappr_client.headers
           /\ snappr_client' = snappr_client
      ]_vars

\* C12 witness: an invocation that found the client failed at its request after
\* the credential had been replaced in the environment, and the client still
\* holds the credential it was constructed with.
C12_Witness ==
    \E t \in Tasks :
        /\ Done(t)
        /\ ~task[t].built
        /\ task[t].fault # NoExc
        /\ task[t].requests # <<>>
        /\ snappr_client # PyNone
        /\ env.SNAPPR_API_KEY.set
        /\ env.SNAPPR_API_KEY.val # snappr_client.api_key

\* sub occurs in the string s
HasSubstring(s, sub) ==
    \E i \in 1..(Len(s) - Len(sub) + 1) : SubSeq(s, i, i + Len(sub) - 1) = sub

\* The credentials in use: the one in the environment and the one the client holds.
Credentials ==
    (IF CredentialSet(env) THEN {env.SNAPPR_API_KEY.val} ELSE {})
    \cup (IF snappr_client # PyNone THEN {snappr_client.api_key} ELSE {})

\* C13: in no reachable state does a diagnostic line written by the program
\* (client construction, per-request or handler logs) contain the full
\* credential value; at most a short prefix of it is surfaced.
C13_CredentialNotLogged ==
    \A t \in Tasks : \A i \in 1..Len(task[t].log) : \A k \in Credentials :
        ~HasSubstring(Concat(task[t].log[i]), k)

\* C14: every invocation completes with exactly one result: provided each
\* outbound request ends, an invocation suspended at its request eventually
\* returns one result with no fault escaping (an invocation that never sends a
\* request has returned already), and once the result is taken nothing of the
\* invocation is kept: the task is as before the call and only the client global
\* remains.
C14_Completes ==
    /\ \A t \in Tasks :
           (task[t].pc = "awaiting") ~>
               (Done(t) /\ OneTextBlock(t) /\ task[t].escaped = NoExc)
    /\ [][\A t \in Tasks :
              /\ Started(t) /\ task'[t].pc # "awaiting" =>
                     task'[t].pc = "done" /\ Len(task'[t].result) = 1
              /\ Done(t) /\ ~Done(t)' => task'[t] = Idle]_vars

\* C14 witness: a suspended invocation was resumed by a failed connection and
\* has returned its one result while the other invocation is still suspended.
C14_Witness ==
    /\ Done("t1")
    /\ task["t1"].outcome # PyNone
    /\ task["t1"].outcome.kind = "connect_error"
    /\ OneTextBlock("t1")
    /\ task["t2"].pc = "awaiting"

\* The invocation of 'name' ended after the upstream service answered 200 with
\* a JSON body.
AnsweredJson(t, name) ==
    /\ Answered(t, 200)
    /\ task[t].name = name
    /\ task[t].outcome.parsable
Body(t) == task[t].outcome.body
Segments(text) == {text[j] : j \in 1..Len(text)}

\* The texts with which the listing handlers report that they listed nothing.
NothingListed ==
    {"Error: ", "[warn] Unexpected API response format.\n\n",
     "No editing job types found in response.",
     "[warn] No editing job types found in results array.",
     "[x] **Error getting editing job types**\n\n"}

\* C15: for every non-empty bare-list answer to list_editing_job_types (a JSON
\* list, not an object), the result renders one line per element of the list
\* and reports no empty, unexpected-format or error outcome.
C15_BareListRendered ==
    \A t \in Tasks :
        (AnsweredJson(t, "list_editing_job_types") /\ IsList(Body(t))
             /\ Len(Body(t).items) > 0) =>
            /\ task[t].fault = NoExc
            /\ OneTextBlock(t)
            /\ \A i \in 1..Len(Body(t).items) :
                   StrOf(Body(t).items[i]) \in Segments(ResultText(t))
            /\ Segments(ResultText(t)) \cap NothingListed = {}

\* The answer of t holds a non-empty list of named objects under 'key'.
ListsNamedUnder(t, key) ==
    /\ IsDict(Body(t))
    /\ Has(Body(t), key)
    /\ IsList(Body(t).d[key])
    /\ Len(Body(t).d[key].items) > 0
    /\ \A i \in 1..Len(Body(t).d[key].items) :
           LET x == Body(t).d[key].items[i]
           IN  IsDict(x) /\ Has(x, "name") /\ IsStr(x.d["name"])

\* The line that shows a named object: its display_name, or its name when it
\* has none, then its internal name.
ShownAs(x) ==
    <<"* **", IF Has(x, "display_name") THEN x.d["display_name"].s ELSE x.d["name"].s,
      "** ('", x.d["name"].s, "')\n">>
ShownInOrder(xs) == FlatSeq([i \in 1..Len(xs) |-> ShownAs(xs[i])])

\* C16: for list_shoot_types, when the upstream object has a non-empty 'results'
\* list, the output contains one line per element, in the order of the list,
\* showing the element's display_name (its name when it has none) and its
\* internal name; for {results: [{name: food, display_name: Food}], count: 1,
\* total: 1} it lists Food and food.
C16_ResultsListed ==
    \A t \in Tasks :
        (AnsweredJson(t, "list_shoot_types") /\ ListsNamedUnder(t, "results")) =>
            /\ task[t].fault = NoExc
            /\ OneTextBlock(t)
            /\ Contains(ResultText(t), ShownInOrder(Body(t).d["results"].items))
            /\ Body(t) = GoodBody("list_shoot_types") =>
                   Contains(ResultText(t), <<"* **", "Food", "** ('", "food", "')\n">>)

\* C16 witness: two shoot types were listed, the first of them without a
\* display_name.
C16_Witness ==
    \E t \in Tasks :
        /\ AnsweredJson(t, "list_shoot_types")
        /\ ListsNamedUnder(t, "results")
        /\ Len(Body(t).d["results"].items) = 2
        /\ ~Has(Body(t).d["results"].items[1], "display_name")
        /\ Contains(ResultText(t), <<"* **", "real-estate", "** ('", "real-estate", "')\n",
                                     "* **", "Food", "** ('", "food", "')\n">>)

AvailableMarker == "[ok] Available"
NotAvailableMarker == "[x] Not Available"
NotAvailableText ==
    "[info] Unfortunately, Snappr photography services are not available in this location for this shoot type.\n"
CoordinateLine(b) ==
    <<"**Coordinates:** ">> \o PyStr(b.d["latitude"]) \o <<", ">>
    \o PyStr(b.d["longitude"]) \o <<"\n">>

\* The status line carries exactly one of the two markers, the not-available
\* text goes with the not-available marker, and the coordinate line appears if
\* and only if the answer has both fields.
CoverageShown(t, available) ==
    /\ task[t].fault = NoExc
    /\ OneTextBlock(t)
    /\ (AvailableMarker \in Segments(ResultText(t))) = available
    /\ (NotAvailableMarker \in Segments(ResultText(t))) = ~available
    /\ (NotAvailableText \in Segments(ResultText(t))) = ~available
    /\ IF Has(Body(t), "latitude") /\ Has(Body(t), "longitude")
       THEN Contains(ResultText(t), CoordinateLine(Body(t)))
       ELSE "**Coordinates:** " \notin Segments(ResultText(t))

\* C17 as stated: for check_coverage, the status line shows the available marker
\* if and only if the upstream field 'coverage' is true (absent counts as
\* false), and the coordinate line appears if and only if the response contains
\* both latitude and longitude.
C17_CoverageIffTrue ==
    \A t \in Tasks :
        (AnsweredJson(t, "check_coverage") /\ IsDict(Body(t))) =>
            CoverageShown(t, Has(Body(t), "coverage")
                             /\ Body(t).d["coverage"] = JBool(TRUE))

\* C17 amended: for check_coverage, the status line shows the available marker
\* if and only if the upstream field 'coverage' is present and truthy (true, a
\* non-zero number, a non-empty string or collection); absent, false, null, 0
\* and empty values give the not-available marker and text.  The coordinate
\* line appears if and only if the response contains both fields.
C17_CoverageIffTruthy ==
    \A t \in Tasks :
        (AnsweredJson(t, "check_coverage") /\ IsDict(Body(t))) =>
            CoverageShown(t, Has(Body(t), "coverage")
                             /\ Truthy(Body(t).d["coverage"]))

\* C17 witness: the answer {"coverage": "no"} was shown as available.
C17_Witness ==
    \E t \in Tasks :
        /\ AnsweredJson(t, "check_coverage")
        /\ Body(t) = JDict("coverage" :> JStr("no"))
        /\ AvailableMarker \in Segments(ResultText(t))


\* The names of a catalog, as a set.
NamesOf(catalog) == {catalog[i].name : i \in 1..Len(catalog)}

\* The request req is the one the handler of the catalog tool 'name' sends.
RoutedTo(name, args, req) ==
    CASE name = "list_shoot_types" -> req.method = "GET" /\ req.endpoint = "shoottypes"
      [] name = "list_editing_job_types" ->
            req.method = "GET" /\ req.endpoint = "editing-job-types"
      [] name = "check_coverage" -> req.method = "GET" /\ req.endpoint = "coverage"
      [] name = "find_availability" -> req.method = "GET" /\ req.endpoint = "availability"
      [] name = "create_booking" -> req.method = "POST" /\ req.endpoint = "bookings"
      [] name = "list_bookings" -> req.method = "GET" /\ req.endpoint = "bookings"
      [] name = "get_booking" ->
            req.method = "GET" /\ req.endpoint = "bookings/" \o StrOf(args["booking_id"])
      [] name = "create_editing_job" ->
            req.method = "POST" /\ req.endpoint = "editing-jobs"
      [] name = "get_booking_media" ->
            /\ req.method = "GET"
            /\ req.endpoint = "bookings/" \o StrOf(args["booking_id"]) \o "/media"
      [] OTHER -> FALSE

UnknownToolReported(t) ==
    /\ task[t].fault # NoExc
    /\ task[t].fault.msg = UnknownToolMsg(task[t].name)

\* C18: the catalog and the dispatcher agree.  Every tools/list query, whatever
\* invocations came before it, returns the same nine descriptors with pairwise
\* distinct names.  call_tool, once get_client has supplied the client, routes
\* each of the nine catalog names to its own handler (the handler's request is
\* issued, or the handler's missing-argument fault is raised); no catalog name
\* yields the unknown-tool error, and no name outside the catalog is routed to a
\* handler: it issues no request and, with a client, yields the unknown-tool
\* error.
C18_CatalogMatchesDispatch ==
    /\ listed # <<>> =>
          /\ listed = list_tools
          /\ Len(listed) = 9
          /\ \A i, j \in 1..Len(listed) : listed[i].name = listed[j].name => i = j
    /\ NamesOf(list_tools) = ToolNames
    /\ \A t \in Tasks :
          InFlight(t) =>
              IF task[t].name \in NamesOf(list_tools)
              THEN /\ ~UnknownToolReported(t)
                   /\ snappr_client # PyNone =>
                          IF LacksRequired(t)
                          THEN task[t].requests = <<>> /\ task[t].fault.cls = "KeyError"
                          ELSE /\ task[t].requests # <<>>
                               /\ RoutedTo(task[t].name, task[t].args,
                                           task[t].requests[1])
              ELSE /\ task[t].requests = <<>>
                   /\ snappr_client # PyNone => UnknownToolReported(t)

\* C18 witness: after invocations of a catalog tool had ended, the catalog was
\* queried while the last catalog tool's request was in flight, and came back
\* whole.
C18_Witness ==
    /\ listed # <<>>
    /\ \E t \in Tasks :
          /\ task[t].pc = "awaiting"
          /\ task[t].name = "get_booking_media"
          /\ ~task[t].built
          /\ task[t].requests[1].endpoint = "bookings/bk_42/media"


\* The optional arguments of each tool (the properties of its input schema that
\* are not required), each with the field of the outbound request that carries it.
OptionalFields(name) ==
    CASE name = "check_coverage" -> {<<"latitude", "latitude">>, <<"longitude", "longitude">>}
      [] name = "find_availability" -> {<<"duration", "duration">>}
      [] name = "create_booking" -> {<<"contact_phone", "phone">>, <<"notes", "notes">>}
      [] name = "list_bookings" ->
            {<<"status", "status">>, <<"limit", "limit">>, <<"offset", "offset">>}
      [] name = "create_editing_job" ->
            {<<"booking_id", "booking_id">>, <<"instructions", "instructions">>,
             <<"image_urls", "image_urls">>}
      [] name = "get_booking_media" -> {<<"media_type", "type">>}
      [] OTHER -> {}

\* The query parameters or JSON body of req contain the field; the phone is a
\* field of the body's contact object.
FieldSent(req, field) ==
    /\ IsDict(req.payload)
    /\ IF field = "phone"
       THEN /\ "contact" \in DOMAIN req.payload.d
            /\ "phone" \in DOMAIN req.payload.d["contact"].d
       ELSE field \in DOMAIN req.payload.d

\* C19: for every tool and every optional argument of it, the outbound request
\* (query parameters or JSON body) contains a field for that argument only when
\* the argument is present in the input; a create_booking call without
\* contact_phone sends no phone field, and list_bookings with no arguments sends
\* no status, limit or offset.
C19_OptionalOnlyWhenPresent ==
    \A t \in Tasks :
        (InFlight(t) /\ task[t].requests # <<>>) =>
            \A p \in OptionalFields(task[t].name) :
                FieldSent(task[t].requests[1], p[2]) => p[1] \in DOMAIN task[t].args


\* The fallback keys of list_shoot_types, in the order they are tried.
FallbackKeys == <<"data", "shoot_types", "shoottypes", "types">>

NonEmptyList(v) == IsList(v) /\ Len(v.items) > 0

\* The collections of body b that are tried after 'results': those under the
\* fallback keys, in order, then b itself if it is a list; the non-empty ones.
FallbackLists(b) ==
    IF IsDict(b)
    THEN LET ks == SelectSeq(FallbackKeys, LAMBDA k: Has(b, k) /\ NonEmptyList(b.d[k]))
         IN  [i \in 1..Len(ks) |-> b.d[ks[i]]]
    ELSE IF NonEmptyList(b) THEN <<b>> ELSE <<>>

\* The output has the line of item x: its names when it is a named object,
\* itself when it is a string.
ItemListed(text, x) ==
    IF IsDict(x)
    THEN Has(x, "name") /\ IsStr(x.d["name"])
         /\ Contains(text, <<"** ('", x.d["name"].s, "')\n">>)
    ELSE IsStr(x) /\ Contains(text, <<"* ", x.s, "\n">>)

\* The texts with which list_shoot_types reports that it found none.
NoShootTypes ==
    {"No shoot types found in response.", "No shoot types found in results array.",
     "[warn] No shoot types found in results array."}

\* C20: for list_shoot_types, when the primary key 'results' is absent or holds
\* an empty list, the handler tries the keys data, shoot_types, shoottypes,
\* types in that order and then the response itself if it is a list; it lists
\* the items of the first non-empty one, and reports that no shoot types were
\* found only when every one of them is absent or empty.
C20_FallbackKeysTried ==
    \A t \in Tasks :
        (/\ AnsweredJson(t, "list_shoot_types")
         /\ IsDict(Body(t)) /\ Has(Body(t), "results") =>
                Body(t).d["results"] = JList(<<>>)
         /\ FallbackLists(Body(t)) # <<>>) =>
            /\ task[t].fault = NoExc
            /\ OneTextBlock(t)
            /\ \A i \in 1..Len(Head(FallbackLists(Body(t))).items) :
                   ItemListed(ResultText(t), Head(FallbackLists(Body(t))).items[i])
            /\ Segments(ResultText(t)) \cap NoShootTypes = {}


\* The fallback keys of list_editing_job_types, in the order they are tried.
EditingFallbackKeys == <<"editing_job_types", "data", "types", "editing_types">>

\* The list of body b that list_editing_job_types is to list: 'results' when it
\* is a non-empty list, else the first non-empty list under a fallback key;
\* <<>> when there is none.
EditingListOf(b) ==
    IF Has(b, "results") /\ NonEmptyList(b.d["results"]) THEN <<b.d["results"]>>
    ELSE LET ks == SelectSeq(EditingFallbackKeys,
                             LAMBDA k: Has(b, k) /\ NonEmptyList(b.d[k]))
         IN  IF ks = <<>> THEN <<>> ELSE <<b.d[Head(ks)]>>

\* The output has the line of the editing job type x.
EditingItemListed(text, x) ==
    IF IsDict(x)
    THEN \E k \in {"name", "display_name"} :
             Has(x, k) /\ IsStr(x.d[k]) /\ Contains(text, <<"* **", x.d[k].s>>)
    ELSE IsStr(x) /\ Contains(text, <<"* ", x.s, "\n">>)

\* C21: for list_editing_job_types the primary key is 'results': when the
\* upstream object has a non-empty 'results' list its elements are listed, and
\* only when 'results' is absent or empty are the fallback keys
\* editing_job_types, data, types, editing_types consulted, the first non-empty
\* one being listed.
C21_ResultsPrimary ==
    \A t \in Tasks :
        (/\ AnsweredJson(t, "list_editing_job_types")
         /\ IsDict(Body(t))
         /\ Has(Body(t), "results") => IsList(Body(t).d["results"])
         /\ EditingListOf(Body(t)) # <<>>) =>
            /\ task[t].fault = NoExc
            /\ OneTextBlock(t)
            /\ \A i \in 1..Len(EditingListOf(Body(t))[1].items) :
                   EditingItemListed(ResultText(t), EditingListOf(Body(t))[1].items[i])
            /\ Segments(ResultText(t)) \cap NothingListed = {}


\* The slots of an answer b of find_availability (none when the field is absent).
SlotsOf(b) == IF Has(b, "available_slots") THEN b.d["available_slots"].items ELSE <<>>

\* b is an object whose available_slots, if present, is a list of slots with a
\* date and a time.
HasSlotList(b) ==
    /\ IsDict(b)
    /\ Has(b, "available_slots") =>
           /\ IsList(b.d["available_slots"])
           /\ \A i \in 1..Len(b.d["available_slots"].items) :
                  LET x == b.d["available_slots"].items[i]
                  IN  /\ IsDict(x)
                      /\ Has(x, "date") /\ IsStr(x.d["date"])
                      /\ Has(x, "time") /\ IsStr(x.d["time"])

SlotMarker == "[date] "
NoSlotsText == "No available slots found for the specified criteria."
ShownSlot(x) == <<SlotMarker, x.d["date"].s, " at ", x.d["time"].s, "\n">>
Min(a, b) == IF a <= b THEN a ELSE b

\* C22: for find_availability, the number of slot lines in the output equals
\* min(10, length of available_slots), the lines are the first slots in upstream
\* order, and the no-slots message appears if and only if available_slots is
\* absent or empty.
C22_SlotsCapped ==
    \A t \in Tasks :
        (AnsweredJson(t, "find_availability") /\ HasSlotList(Body(t))) =>
            LET slots == SlotsOf(Body(t))
                n == Min(10, Len(slots))
                text == ResultText(t)
            IN  /\ task[t].fault = NoExc
                /\ OneTextBlock(t)
                /\ Cardinality({j \in 1..Len(text) : text[j] = SlotMarker}) = n
                /\ n > 0 => Contains(text, FlatSeq([i \in 1..n |-> ShownSlot(slots[i])]))
                /\ (NoSlotsText \in Segments(text)) <=> (Len(slots) = 0)

\* C22 witness: of twelve slots the first ten were shown, the eleventh was not.
C22_Witness ==
    \E t \in Tasks :
        /\ AnsweredJson(t, "find_availability")
        /\ Body(t) = JDict("available_slots" :> JList(ManySlots))
        /\ Contains(ResultText(t), ShownSlot(ManySlots[10]))
        /\ ~Contains(ResultText(t), ShownSlot(ManySlots[11]))


\* C23: for get_booking_media, the outbound query carries a 'type' parameter
\* equal to media_type if and only if media_type is present in the input and
\* differs from "all"; when media_type is absent or "all" the query has no
\* parameters, and the request always goes to bookings/{booking_id}/media.
C23_MediaTypeFilter ==
    \A t \in Tasks :
        (InFlight(t) /\ task[t].name = "get_booking_media" /\ task[t].requests # <<>>) =>
            LET req == task[t].requests[1]
                args == task[t].args
            IN  /\ req.method = "GET"
                /\ req.endpoint = "bookings/" \o StrOf(args["booking_id"]) \o "/media"
                /\ req.payload =
                       IF "media_type" \in DOMAIN args /\ args["media_type"] # JStr("all")
                       THEN JDict("type" :> args["media_type"])
                       ELSE EmptyDict

\* C23 witness: media_type "all" was given and the query went out with no
\* parameters.
C23_Witness ==
    \E t \in Tasks :
        /\ task[t].pc = "awaiting"
        /\ task[t].name = "get_booking_media"
        /\ "media_type" \in DOMAIN task[t].args
        /\ task[t].args["media_type"] = JStr("all")
        /\ task[t].requests[1].payload = EmptyDict

\* The media items of an answer b of get_booking_media (none when absent).
MediaOf(b) == IF Has(b, "media") THEN b.d["media"].items ELSE <<>>

\* b is an object whose media, if present, is a list of objects with a filename.
HasMediaList(b) ==
    /\ IsDict(b)
    /\ Has(b, "media") =>
           /\ IsList(b.d["media"])
           /\ \A i \in 1..Len(b.d["media"].items) :
                  LET x == b.d["media"].items[i]
                  IN  IsDict(x) /\ Has(x, "filename") /\ IsStr(x.d["filename"])

OfType(items, ty) ==
    SelectSeq(items, LAMBDA x: Has(x, "type") /\ x.d["type"] = JStr(ty))

MediaMarker == "   * "
NoMediaText == "No media available for this booking."
ShownMedia(x) ==
    <<MediaMarker, x.d["filename"].s, " - ">>
    \o (IF Has(x, "url") THEN PyStr(x.d["url"]) ELSE <<"No URL">>) \o <<"\n">>
ShownGroup(heading, items) ==
    <<heading, ToString(Len(items)), "):\n">>
    \o FlatSeq([i \in 1..Len(items) |-> ShownMedia(items[i])])

\* C24: for get_booking_media, the items of the upstream 'media' list are
\* partitioned by their 'type' field: every item of type photo is listed under
\* the photos heading and every item of type video under the videos heading,
\* each item at most once, with the headings showing the exact counts; items of
\* any other type are listed nowhere, and the no-media message appears if and
\* only if 'media' is absent or empty.
C24_MediaPartition ==
    \A t \in Tasks :
        (AnsweredJson(t, "get_booking_media") /\ HasMediaList(Body(t))) =>
            LET items == MediaOf(Body(t))
                photos == OfType(items, "photo")
                videos == OfType(items, "video")
                text == ResultText(t)
            IN  /\ task[t].fault = NoExc
                /\ OneTextBlock(t)
                /\ IF photos # <<>>
                   THEN Contains(text, ShownGroup("[camera] Photos (", photos))
                   ELSE "[camera] Photos (" \notin Segments(text)
                /\ IF videos # <<>>
                   THEN Contains(text, ShownGroup("\n[video] Videos (", videos))
                   ELSE "\n[video] Videos (" \notin Segments(text)
                /\ Cardinality({j \in 1..Len(text) : text[j] = MediaMarker})
                       = Len(photos) + Len(videos)
                /\ (NoMediaText \in Segments(text)) <=> (items = <<>>)

\* C24 witness: of a photo, a video and an item of another type, the photo and
\* the video were listed under their headings and the third item nowhere.
C24_Witness ==
    \E t \in Tasks :
        /\ AnsweredJson(t, "get_booking_media")
        /\ Body(t) = GoodBody("get_booking_media")
        /\ Contains(ResultText(t), ShownGroup("[camera] Photos (", <<Media("photo", "a.jpg")>>))
        /\ "c.dng" \notin Segments(ResultText(t))


LeadingSlash(s) == SubSeq(s, 1, 1) = "/"
EndsWithSlash(s) == Len(s) > 0 /\ SubSeq(s, Len(s), Len(s)) = "/"
WithSlash(s) == IF EndsWithSlash(s) THEN s ELSE s \o "/"
\* The base URL up to and including the last "/" of its path.
DirOf(base) == SubSeq(base, 1, RFind(base, "/", Len(base)))

\* C25 as stated: the target URL of every request is the endpoint resolved
\* against the configured base URL so that a bare-segment endpoint is appended
\* to the base URL's path and a leading-slash endpoint replaces the base's
\* path, for the production host, the sandbox host and any override value, with
\* or without a trailing slash.
C25_Appended ==
    \A t \in Tasks :
        (InFlight(t) /\ task[t].requests # <<>>) =>
            LET req == task[t].requests[1]
            IN  IF LeadingSlash(req.endpoint)
                THEN req.url = UrlSplit(req.base_url).origin \o req.endpoint
                ELSE req.url = WithSlash(req.base_url) \o req.endpoint

\* C25 amended: a leading-slash endpoint replaces the base's path; a bare
\* endpoint replaces what follows the last "/" of the base's path, so it is
\* appended to the base's path exactly when the base URL ends with "/" or has
\* no path at all, and otherwise takes the place of the path's last segment.
C25_RelativeResolution ==
    \A t \in Tasks :
        (InFlight(t) /\ task[t].requests # <<>>) =>
            LET req == task[t].requests[1]
                base == req.base_url
            IN  IF LeadingSlash(req.endpoint)
                THEN req.url = UrlSplit(base).origin \o req.endpoint
                ELSE IF EndsWithSlash(base) \/ UrlSplit(base).path = ""
                THEN req.url = WithSlash(base) \o req.endpoint
                ELSE /\ req.url = DirOf(base) \o req.endpoint
                     /\ req.url # WithSlash(base) \o req.endpoint

\* C25 witness: under an override without a trailing slash a bare endpoint took
\* the place of the last segment of the base's path.
C25_Witness ==
    \E t \in Tasks :
        /\ task[t].pc = "awaiting"
        /\ task[t].requests[1].base_url = "https://proxy.example.test/api/v2"
        /\ task[t].requests[1].endpoint = "bookings/bk_42/media"
        /\ task[t].requests[1].url = "https://proxy.example.test/api/bookings/bk_42/media"


\* The texts with which a result reports an error, and those with which it
\* reports that nothing was found.
ErrorMarkers ==
    {"Error: ", "SNAPPR_ERROR: Exception in handle_list_shoot_types: ",
     "[x] **Error getting shoot types**\n\n", "[x] **Error getting editing job types**\n\n"}
UnexpectedMarker == "[warn] Unexpected API response format.\n\n"
NoneFoundMarkers ==
    NoShootTypes
    \cup {"No editing job types found in response.",
          "[warn] No editing job types found in results array.", NoSlotsText, NoMediaText,
          "No bookings found."}

\* The outcome classes a result text can be counted in: error, no items found,
\* or items listed; the unexpected-format notice counts as either of the first
\* two.
OutcomeClass(text) ==
    IF Segments(text) \cap ErrorMarkers # {} THEN {"error"}
    ELSE IF Segments(text) \cap NoneFoundMarkers # {} THEN {"none"}
    ELSE IF UnexpectedMarker \in Segments(text) THEN {"none", "error"}
    ELSE {"listed"}

\* What call_tool of variant v returns for the invocation of t once its request
\* ended as it did.
ReturnOf(v, t) ==
    LET req == task[t].requests[1]
        r == ClientCall(req.method, req.endpoint, task[t].outcome)
    IN  CallToolReturn(HandlerEnd(v, task[t].name, task[t].args, r))

\* C26: the two source variants are functionally equivalent: for every tool
\* name, argument mapping, environment and upstream response, both issue the
\* same upstream request (method, endpoint, parameters or body) and reach the
\* same outcome class (items listed, no items found, or error).
C26_VariantsEquivalent ==
    \A t \in Tasks :
        (Done(t) /\ task[t].name \in ToolNames /\ task[t].outcome # PyNone) =>
            LET a == ReturnOf("app", t)
                m == ReturnOf("mcp", t)
            IN  /\ task[t].result = ReturnOf(variant, t).result
                /\ a.escaped = NoExc /\ m.escaped = NoExc
                /\ OutcomeClass(a.result[1].text) \cap OutcomeClass(m.result[1].text) # {}


\* The global 'snappr_client' as the invocation of t found it: unset when the
\* invocation constructed the client, else what it is now (once set it never
\* changes, and the environment does not change while an invocation runs).
ClientFound(t) == IF task[t].built THEN PyNone ELSE snappr_client

\* What the invocation of t produces when it runs with no other invocation in
\* flight, from the same arguments, environment, client state and upstream
\* outcome: the requests it issues and the result call_tool returns.
RunAlone(t) ==
    LET gc == get_client(variant, ClientFound(t), env)
        hb == IF gc.ok THEN HandlerBegin(task[t].name, task[t].args) ELSE Raise(gc.exc)
    IN  IF ~hb.ok THEN [requests |-> <<>>, result |-> CallToolReturn(hb).result]
        ELSE LET r == ClientCall(hb.val.method, hb.val.endpoint, task[t].outcome)
             IN  [requests |-> <<Outbound(gc.val, hb.val)>>,
                  result |-> CallToolReturn(HandlerEnd(variant, task[t].name,
                                                       task[t].args, r)).result]

\* C27: tool invocations do not interfere: when two or more invocations are in
\* flight and interleave at their HTTP suspension points, each invocation's
\* result (and the request it issued) equals what the same invocation produces
\* when run alone with the same arguments, environment and upstream response.
C27_NoInterference ==
    \A t \in Tasks :
        Done(t) =>
            /\ task[t].requests = RunAlone(t).requests
            /\ task[t].result = RunAlone(t).result

\* C27 witness: an invocation that started after another one, and found the
\* client that one had constructed, has ended with a booking while the other is
\* still suspended at its request.
C27_Witness ==
    /\ task["t2"].pc = "awaiting" /\ task["t2"].built
    /\ task["t2"].name = "list_bookings"
    /\ Answered("t1", 200)
    /\ task["t1"].name = "create_booking"
    /\ ~task["t1"].built
    /\ task["t1"].result = RunAlone("t1").result
    /\ Contains(ResultText("t1"), <<"[ok] Booking Created Successfully!\n\n">>)


ConfigFailure(tk) == tk.pc = "done" /\ tk.fault.msg = ConfigErrorMsg

\* C28: a failed client construction leaves the process state unchanged: an
\* invocation that finds no client and no credential (absent or empty) ends in
\* the configuration error, sends nothing and leaves the singleton unset; an
\* invocation made once the credential is set, whatever failed before it,
\* constructs the client from the environment of that moment and proceeds
\* without the configuration error.
C28_FailureLeavesNoTrace ==
    [][\A t \in Tasks :
          Started(t) =>
              /\ (snappr_client = PyNone /\ ~CredentialSet(env)) =>
                     /\ ConfigFailure(task'[t])
                     /\ task'[t].requests = <<>>
                     /\ snappr_client' = PyNone
              /\ (snappr_client = PyNone /\ CredentialSet(env)) =>
                     /\ task'[t].built
                     /\ snappr_client' = SnapprClient(variant, env.SNAPPR_API_KEY.val,
                                                      UseSandbox(env), env)
                     /\ UsesClient(task'[t], snappr_client')
                     /\ ~ConfigFailure(task'[t])
      ]_vars

\* C28 witness: one invocation has ended in the configuration error; the
\* credential was set afterwards, and a later invocation has constructed the
\* client and is suspended at its request.
C28_Witness ==
    /\ ConfigFailure(task["t1"])
    /\ CredentialSet(env)
    /\ task["t2"].pc = "awaiting"
    /\ task["t2"].built
    /\ snappr_client # PyNone
    /\ task["t2"].requests[1].headers = Headers(TheKey)


\* The text call_tool of the running variant returns for the invocation of t
\* when the same body arrives with status 200.
SuccessText(t) ==
    LET req == task[t].requests[1]
        r == ClientCall(req.method, req.endpoint, Response(200, "", Body(t)))
    IN  CallToolReturn(HandlerEnd(variant, task[t].name, task[t].args, r)).result[1].text

\* The headings and item marks of the success-formatted results.
SuccessMarkers ==
    {"[ok] Booking Created Successfully!\n\n", "[ok] Available", "* **", SlotMarker,
     MediaMarker, "[camera] Photos (", "Found ", "*Found "}

\* C29: the HTTP status is checked before the body is interpreted: for every
\* tool, an upstream response with a 4xx or 5xx status never produces a
\* success-formatted result, even when its body is well-formed JSON of the
\* expected shape; the result is always an error text.
C29_StatusBeforeBody ==
    \A t \in Tasks :
        (/\ Done(t)
         /\ task[t].name \in ToolNames
         /\ task[t].outcome # PyNone
         /\ task[t].outcome.kind = "response"
         /\ task[t].outcome.code >= 400) =>
            /\ task[t].fault # NoExc
            /\ OneTextBlock(t)
            /\ OutcomeClass(ResultText(t)) = {"error"}
            /\ Segments(ResultText(t)) \cap SuccessMarkers = {}
            /\ ResultText(t) # SuccessText(t)

\* C29 witness: create_booking was answered 500 with a body of the shape of a
\* created booking, and reported the upstream error.
C29_Witness ==
    \E t \in Tasks :
        /\ Answered(t, 500)
        /\ task[t].name = "create_booking"
        /\ Body(t) = GoodBody("create_booking")
        /\ Contains(ResultText(t), <<"Error: ", "Snappr API error (", "500", "): ">>)


\* C30: for check_coverage, the outbound query always carries address and
\* shoottype (the input shoot_type under the renamed key, never a shoot_type
\* key), and carries latitude and longitude either both or neither: both
\* exactly when both are present in the input, and neither when only one of
\* them is supplied.
C30_CoverageQuery ==
    \A t \in Tasks :
        (InFlight(t) /\ task[t].name = "check_coverage" /\ task[t].requests # <<>>) =>
            LET req == task[t].requests[1]
                args == task[t].args
                both == {"latitude", "longitude"} \subseteq DOMAIN args
            IN  /\ req.method = "GET" /\ req.endpoint = "coverage"
                /\ IsDict(req.payload)
                /\ DOMAIN req.payload.d =
                       {"address", "shoottype"}
                       \cup (IF both THEN {"latitude", "longitude"} ELSE {})
                /\ req.payload.d["address"] = args["address"]
                /\ req.payload.d["shoottype"] = args["shoot_type"]
                /\ both => /\ req.payload.d["latitude"] = args["latitude"]
                           /\ req.payload.d["longitude"] = args["longitude"]

\* C30 witness: only latitude was supplied and the query went out with address
\* and shoottype alone.
C30_Witness ==
    \E t \in Tasks :
        /\ task[t].pc = "awaiting"
        /\ task[t].name = "check_coverage"
        /\ "latitude" \in DOMAIN task[t].args
        /\ "longitude" \notin DOMAIN task[t].args
        /\ DOMAIN task[t].requests[1].payload.d = {"address", "shoottype"}

====
